---- MODULE Spec2Model ----
(***************************************************************************)
(* A model of pymodbus_gui.core.slave_server: the register datastore of a  *)
(* ModbusSlave (seeding, read_register, write_register, get_all_values),   *)
(* the lifecycle of its server worker (start, stop, the worker thread and  *)
(* its event loop), its file records (read_file_record, write_file_record),*)
(* the SlaveManager with its log callback, and validate_points of          *)
(* pymodbus_gui.core.register_manager.                                     *)
(***************************************************************************)
EXTENDS Integers, Sequences, FiniteSets, TLC

(***************************************************************************)
(* Bounds of the model.                                                     *)
(***************************************************************************)
\* Size of each of the four banks (SlaveConfig.*_count; 1000 by default).
BankSize == 2
\* Longest list of configured points.
MaxPoints == 2
\* Longest run of read_register / write_register calls.
MaxOps == 2
\* Largest number of worker threads launched over a run.
MaxWorkers == 2
\* Supervisor: slave ids offered, instances built, concurrent callers.
MaxIds == 2
MaxInstances == 2
MaxCallers == 2
\* File records: configurations per instance, max_size in bytes, calls made.
MaxFiles == 2
MaxSize == 4
MaxFileOps == 2

(***************************************************************************)
(* Values.  A value handed to the instance (RegisterPoint.value, the value  *)
(* argument of write_register) is a Python object: either an integer n,     *)
(* written <<n>>, or an object that int() and the comparison operators      *)
(* reject (None, a non-numeric string), written NaV.  An optional bound     *)
(* (min_value, max_value) is <<n>> or None.  The cells of a bank hold       *)
(* plain integers, the results of int(value).                               *)
(***************************************************************************)
NaV == <<>>
None == <<>>
IsInt(v) == Len(v) = 1
IntOf(v) == v[1]

RegisterTypes == {"coil", "discrete_input", "holding_register", "input_register"}
BoolTypes == {"coil", "discrete_input"}

\* The numeric bounds a configured point carries in this model: [1, 2].
LowBound == 1
HighBound == 2

\* The integers offered as values: below, on and above the bounds of a
\* bounded point; 0 and 1 are the values of a boolean bank.
IntValues == (LowBound - 1) .. (HighBound + 1)
Values == {<<n>> : n \in IntValues} \cup {NaV}

\* Addresses offered to the operations: inside a bank (0 .. BankSize-1) and
\* the first one past it.
Addresses == 0 .. BankSize

(***************************************************************************)
(* RegisterPoint.  name, description and unit do not bear on behaviour.     *)
(***************************************************************************)
RegisterPoint(a, t, v, lo, hi, ro) ==
  [address |-> a, register_type |-> t, value |-> v,
   min_value |-> lo, max_value |-> hi, read_only |-> ro]

\* The kinds of point offered: a plain point, a bounded point, a read-only
\* point and a point whose initial value is not a number.
PointKinds ==
  { [value |-> <<HighBound>>, min_value |-> None, max_value |-> None, read_only |-> FALSE],
    [value |-> <<LowBound>>, min_value |-> <<LowBound>>, max_value |-> <<HighBound>>, read_only |-> FALSE],
    [value |-> <<LowBound>>, min_value |-> None, max_value |-> None, read_only |-> TRUE],
    [value |-> NaV, min_value |-> None, max_value |-> None, read_only |-> FALSE] }

PointsOf(t) ==
  { RegisterPoint(a, t, k.value, k.min_value, k.max_value, k.read_only) :
      a \in Addresses, k \in PointKinds }

\* The point lists offered as SlaveConfig.register_points.  The banks are
\* separate data blocks and find_point matches on register_type, so points
\* of different banks never meet: the lists of several points are drawn
\* inside one bank, duplicates of an address included (the caller's
\* validate_points check can be overridden).
RECURSIVE ListsOver(_, _)
ListsOver(S, n) ==
  IF n = 0 THEN {<<>>}
  ELSE LET shorter == ListsOver(S, n - 1)
       IN shorter \cup {Append(l, p) : l \in {s \in shorter : Len(s) = n - 1}, p \in S}

PointLists == UNION {ListsOver(PointsOf(t), MaxPoints) : t \in RegisterTypes}

(***************************************************************************)
(* State.                                                                   *)
(***************************************************************************)
VARIABLES
  points,     \* config.register_points
  store,      \* slave_context: register_type -> the bank's list of cells
  initialized_count, \* the count _init_datastore reports
  cbLog,      \* calls received by on_value_change, oldest first
  nOps,       \* read_register / write_register calls made so far
  lastOp,     \* the last call and its OperationResult
  connection, \* config.connection_type, and whether the serial port is given
  running,    \* self.running
  error_message, \* self.error_message
  server_thread, \* self.server_thread: a worker, 0 for None
  loop,       \* self.loop: the event loop made by that worker, 0 for None
  server,     \* self.server: the server object made by that worker, 0 for None
  lock,       \* self.lock: "free", or the call that holds it
  cpc,        \* where the caller stands inside start() or stop()
  future,     \* the loop on which the shutdown awaited by stop() was queued
  wpc,        \* worker -> where the thread stands in _run_tcp_server
  loopSt,     \* worker -> its event loop: "none", "open", "closed"
  loopStop,   \* worker -> loop.stop has been scheduled on its loop
  task,       \* worker -> the _start_tcp_server task on its loop
  shutdownJob, \* worker -> the _shutdown_server coroutine on its loop
  srv,        \* worker -> the transport of its server object
  nLaunched,  \* worker threads launched so far
  result,     \* the last start() / stop() call and its OperationResult
  teardown,   \* the teardown steps of the last stop(), in order
  apc,        \* where a write_register call in progress stands
  areq,       \* the arguments of that call
  slaves,     \* SlaveManager.slaves: the dict's entries in insertion order
  nBuilt,     \* ModbusSlave instances built by add_slave so far
  mlock,      \* SlaveManager.lock: the caller that holds it, 0 when free
  irunning,   \* instance -> its running flag
  ilive,      \* instance -> it has a live worker thread
  ilock,      \* instance -> the caller that holds its lock, 0 when free
  tpc,        \* caller -> where it stands inside a SlaveManager method
  spc,        \* caller -> where it stands inside the start() / stop() it called
  targ,       \* caller -> the slave_id and the instance it works on
  titer,      \* caller -> the dict iterator of its stop_all()
  tclean,     \* caller -> no start() has returned success during its stop_all()
  mres,       \* the SlaveManager call that returned last, and its outcome
  enable_file_operations, \* config.enable_file_operations
  file_records, \* config.file_records
  file_data,  \* self.file_data: file number -> its buffer, if it has one
  disk,       \* the files on disk: path -> the file, if there is one
  nFileOps,   \* read_file_record / write_file_record calls made so far
  lastFile,   \* the last such call and its OperationResult
  snapshot,   \* the dict the last get_all_values() returned
  on_log,     \* SlaveManager.on_log is set
  ion_log,    \* instance -> its on_log is set (to the supervisor's callback)
  sunk,       \* instance -> the messages of it the callback has received
  validation  \* a point list and what validate_points returned for it

regVars == <<points, store, initialized_count, cbLog, nOps, lastOp>>
lifeVars == <<connection, running, error_message, server_thread, loop, server,
              lock, cpc, future, wpc, loopSt, loopStop, task, shutdownJob, srv,
              nLaunched, result, teardown>>
accVars == <<apc, areq>>

\* The state outside the registers and the lifecycle.
mgrVars == <<slaves, nBuilt, mlock, irunning, ilive, ilock, tpc, spc,
             targ, titer, tclean, mres>>

fileVars == <<enable_file_operations, file_records, file_data, disk, nFileOps,
              lastFile>>

snapVars == <<snapshot>>

logVars == <<on_log, ion_log, sunk>>

valVars == <<validation>>

extVars == <<accVars, mgrVars, fileVars, snapVars, logVars, valVars>>

vars == <<regVars, lifeVars, extVars>>

(***************************************************************************)
(* The datastore.  A bank is ModbusSequentialDataBlock(0, [0] * count): a   *)
(* Python list, modelled as a sequence whose element i+1 is list index i.   *)
(* ModbusSlaveContext adds 1 to the protocol address before it indexes the  *)
(* block (the note in _init_datastore), and the block reads and writes by   *)
(* list slice: a slice past the end reads as empty and, assigned to,        *)
(* appends.                                                                 *)
(***************************************************************************)
NewBlock == [i \in 1 .. BankSize |-> 0]

\* getValues reading the block at the protocol address itself, one cell
\* before the cell setValues writes.
getValues_no_offset(block, address) ==
  IF address < Len(block) THEN <<block[address + 1]>> ELSE <<>>

\* slave_context.getValues(fc, address, count=1) on the bank's list.
getValues(block, address) ==
  LET start == address + 1
  IN IF start < Len(block) THEN <<block[start + 1]>> ELSE <<>>

\* slave_context.setValues(fc, address, [n]) on the bank's list.
setValues(block, address, n) ==
  LET start == address + 1
  IN IF start < Len(block) THEN [block EXCEPT ![start + 1] = n]
     ELSE Append(block, n)

\* _init_datastore: the banks, then every point's value written at its
\* address; a point whose value int() rejects is skipped.  r is the pair of
\* the banks and the count of points reported as initialised.
RECURSIVE SeedPoints(_, _, _)
SeedPoints(pts, i, r) ==
  IF i > Len(pts) THEN r
  ELSE LET point == pts[i]
       IN IF ~IsInt(point.value)
          THEN SeedPoints(pts, i + 1, r)
          ELSE SeedPoints(pts, i + 1,
                 [banks |-> IF point.register_type \in RegisterTypes
                            THEN [r.banks EXCEPT ![point.register_type] =
                                    setValues(@, point.address, IntOf(point.value))]
                            ELSE r.banks,
                  count |-> r.count + 1])

init_datastore(pts) ==
  SeedPoints(pts, 1, [banks |-> [t \in RegisterTypes |-> NewBlock], count |-> 0])

(***************************************************************************)
(* RegisterPoint.validate_value.  "raise" stands for the TypeError of a     *)
(* comparison between a bound and a value that is not a number.             *)
(***************************************************************************)
\* validate_value with the upper bound excluded (>= for >).
validate_value_strict_max(point, value) ==
  IF point.register_type \in BoolTypes
  THEN IF IsInt(value) /\ IntOf(value) \in {0, 1} THEN "true" ELSE "false"
  ELSE IF point.min_value # None /\ ~IsInt(value) THEN "raise"
  ELSE IF point.min_value # None /\ IntOf(value) < IntOf(point.min_value) THEN "false"
  ELSE IF point.max_value # None /\ ~IsInt(value) THEN "raise"
  ELSE IF point.max_value # None /\ IntOf(value) >= IntOf(point.max_value) THEN "false"
  ELSE "true"

validate_value(point, value) ==
  IF point.register_type \in BoolTypes
  THEN IF IsInt(value) /\ IntOf(value) \in {0, 1} THEN "true" ELSE "false"
  ELSE IF point.min_value # None /\ ~IsInt(value) THEN "raise"
  ELSE IF point.min_value # None /\ IntOf(value) < IntOf(point.min_value) THEN "false"
  ELSE IF point.max_value # None /\ ~IsInt(value) THEN "raise"
  ELSE IF point.max_value # None /\ IntOf(value) > IntOf(point.max_value) THEN "false"
  ELSE "true"

\* _find_point returning the last match instead of the first.
find_point_last(register_type, address) ==
  LET hits == { i \in 1 .. Len(points) :
                  /\ points[i].register_type = register_type
                  /\ points[i].address = address }
  IN IF hits = {} THEN 0 ELSE CHOOSE i \in hits : \A j \in hits : i >= j

\* _find_point: the first configured point of the bank at the address, as
\* its index in the list, 0 for None.
find_point(register_type, address) ==
  LET hits == { i \in 1 .. Len(points) :
                  /\ points[i].register_type = register_type
                  /\ points[i].address = address }
  IN IF hits = {} THEN 0 ELSE CHOOSE i \in hits : \A j \in hits : i <= j

(***************************************************************************)
(* read_register: the OperationResult of a read.                            *)
(***************************************************************************)
read_register(register_type, address) ==
  IF register_type \notin RegisterTypes
  THEN [success |-> FALSE, data |-> 0, error |-> "invalid_type"]
  ELSE LET values == getValues(store[register_type], address)
       IN [success |-> TRUE,
           data |-> IF values # <<>> THEN values[1] ELSE 0,
           error |-> ""]

(***************************************************************************)
(* write_register: the banks after the call, whether on_value_change was    *)
(* invoked, and the OperationResult.  cbRaises says whether the callback    *)
(* raises when it is invoked.                                               *)
(***************************************************************************)
Rejected(err) == [banks |-> store, called |-> FALSE, success |-> FALSE, error |-> err]

\* write_register invoking on_value_change before it tests the point, so
\* for the rejected calls as well.
write_register_calls_first(register_type, address, value, cbRaises) ==
  LET p == find_point(register_type, address)
      check == IF p = 0 THEN "true" ELSE validate_value(points[p], value)
  IN IF p # 0 /\ points[p].read_only THEN [Rejected("read_only") EXCEPT !.called = TRUE]
     ELSE IF check = "false" THEN [Rejected("out_of_range") EXCEPT !.called = TRUE]
     ELSE IF check = "raise" THEN Rejected("exception")
     ELSE IF register_type \notin RegisterTypes
     THEN [Rejected("invalid_type") EXCEPT !.called = TRUE]
     ELSE IF ~IsInt(value) THEN Rejected("exception")
     ELSE [banks |-> [store EXCEPT ![register_type] = setValues(@, address, IntOf(value))],
           called |-> TRUE,
           success |-> ~cbRaises,
           error |-> IF cbRaises THEN "exception" ELSE ""]

write_register(register_type, address, value, cbRaises) ==
  LET p == find_point(register_type, address)
      check == IF p = 0 THEN "true" ELSE validate_value(points[p], value)
  IN IF p # 0 /\ points[p].read_only THEN Rejected("read_only")
     ELSE IF check = "false" THEN Rejected("out_of_range")
     ELSE IF check = "raise" THEN Rejected("exception")
     ELSE IF register_type \notin RegisterTypes THEN Rejected("invalid_type")
     ELSE IF ~IsInt(value) THEN Rejected("exception")
     ELSE [banks |-> [store EXCEPT ![register_type] = setValues(@, address, IntOf(value))],
           called |-> TRUE,
           success |-> ~cbRaises,
           error |-> IF cbRaises THEN "exception" ELSE ""]

(***************************************************************************)
(* Actions of the register interface.                                       *)
(***************************************************************************)
NoOp == [op |-> "none", register_type |-> "", address |-> 0, value |-> NaV,
         success |-> TRUE, data |-> 0, error |-> ""]

\* ModbusSlave.__init__ for the register side: the banks seeded from the
\* points, nothing called yet.
Constructed(pts) ==
  /\ points = pts
  /\ store = init_datastore(pts).banks
  /\ initialized_count = init_datastore(pts).count
  /\ cbLog = <<>>
  /\ nOps = 0
  /\ lastOp = NoOp

ReadRegister(register_type, address) ==
  /\ nOps < MaxOps
  /\ nOps' = nOps + 1
  /\ LET r == read_register(register_type, address)
     IN lastOp' = [op |-> "read", register_type |-> register_type,
                   address |-> address, value |-> NaV,
                   success |-> r.success, data |-> r.data, error |-> r.error]
  /\ UNCHANGED <<points, store, initialized_count, cbLog>>
  /\ UNCHANGED <<lifeVars, extVars>>

WriteRegister(register_type, address, value, cbRaises) ==
  /\ nOps < MaxOps
  /\ nOps' = nOps + 1
  /\ LET w == write_register(register_type, address, value, cbRaises)
     IN /\ store' = w.banks
        /\ cbLog' = IF w.called
                    THEN Append(cbLog, <<register_type, address, value>>)
                    ELSE cbLog
        /\ lastOp' = [op |-> "write", register_type |-> register_type,
                      address |-> address, value |-> value,
                      success |-> w.success, data |-> 0, error |-> w.error]
  /\ UNCHANGED <<points, initialized_count>>
  /\ UNCHANGED <<lifeVars, extVars>>

NextReg ==
  \/ \E t \in RegisterTypes, a \in Addresses : ReadRegister(t, a)
  \/ \E t \in RegisterTypes, a \in Addresses, v \in Values : 
       WriteRegister(t, a, v, FALSE)

(***************************************************************************)
(* The lifecycle: start(), stop() and the worker thread.                    *)
(*                                                                          *)
(* start() and stop() run under self.lock, so at most one of them is in     *)
(* progress (cpc); the worker threads take no lock and their steps          *)
(* interleave with the steps of a call.  Worker w is the w-th thread        *)
(* launched; the event loop and the server object it creates carry its      *)
(* number.  A TCP instance and a serial instance with its port given run    *)
(* the same code (_run_rtu_server is _run_tcp_server line for line), so the *)
(* configurations offered are TCP and serial without a port.                *)
(***************************************************************************)
Workers == 1 .. MaxWorkers
Connections == {"TCP", "RTU_no_port"}

Alive(w) == wpc[w] \notin {"unborn", "exited"}

\* The OperationResult of a start() or stop() call; seq tells one call from
\* the next.
Outcome(op, ok, noop) ==
  [op |-> op, success |-> ok, noop |-> noop, seq |-> 1 - result.seq]

NoCall == [op |-> "none", success |-> TRUE, noop |-> FALSE, seq |-> 0]

\* ModbusSlave.__init__ for the lifecycle side.
Stopped(conn) ==
  /\ connection = conn
  /\ running = FALSE
  /\ error_message = "None"
  /\ server_thread = 0
  /\ loop = 0
  /\ server = 0
  /\ lock = "free"
  /\ cpc = "idle"
  /\ future = 0
  /\ wpc = [w \in Workers |-> "unborn"]
  /\ loopSt = [w \in Workers |-> "none"]
  /\ loopStop = [w \in Workers |-> FALSE]
  /\ task = [w \in Workers |-> "none"]
  /\ shutdownJob = [w \in Workers |-> "none"]
  /\ srv = [w \in Workers |-> "none"]
  /\ nLaunched = 0
  /\ result = NoCall
  /\ teardown = <<>>

\* The instance fields a call of start() or stop() can change besides its
\* result.
callVars == <<connection, running, error_message, server_thread, loop, server,
              lock, cpc, future, wpc, loopSt, loopStop, task, shutdownJob, srv,
              nLaunched, teardown>>

(***************************************************************************)
(* start()                                                                  *)
(***************************************************************************)
\* start() that launches a worker although the instance is running.
StartAlreadyRunning_relaunch ==
  /\ lock = "free"
  /\ running
  /\ nLaunched < MaxWorkers
  /\ nLaunched' = nLaunched + 1
  /\ server_thread' = nLaunched + 1
  /\ wpc' = [wpc EXCEPT ![nLaunched + 1] = "launched"]
  /\ result' = Outcome("start", FALSE, TRUE)
  /\ UNCHANGED <<connection, running, error_message, loop, server, lock, cpc, future,
                 loopSt, loopStop, task, shutdownJob, srv, teardown>>
  /\ UNCHANGED <<regVars, extVars>>

\* start() while self.running: the call returns at once.
StartAlreadyRunning ==
  /\ lock = "free"
  /\ running
  /\ result' = Outcome("start", FALSE, TRUE)
  /\ UNCHANGED callVars
  /\ UNCHANGED <<regVars, extVars>>

\* start() of a serial instance with no port: the call returns an error
\* before anything is launched.
StartNoPort ==
  /\ lock = "free"
  /\ ~running
  /\ connection = "RTU_no_port"
  /\ result' = Outcome("start", FALSE, FALSE)
  /\ UNCHANGED callVars
  /\ UNCHANGED <<regVars, extVars>>

\* start(): the worker thread is created and started.
StartLaunch ==
  /\ lock = "free"
  /\ ~running
  /\ connection = "TCP"
  /\ nLaunched < MaxWorkers
  /\ lock' = "start"
  /\ cpc' = "start_launched"
  /\ nLaunched' = nLaunched + 1
  /\ server_thread' = nLaunched + 1
  /\ wpc' = [wpc EXCEPT ![nLaunched + 1] = "launched"]
  /\ UNCHANGED <<connection, running, error_message, loop, server, future, loopSt,
                 loopStop, task, shutdownJob, srv, result, teardown>>
  /\ UNCHANGED <<regVars, extVars>>

\* start(): after the launch, running is set, the error cleared and success
\* returned.
StartReturn ==
  /\ cpc = "start_launched"
  /\ running' = TRUE
  /\ error_message' = "None"
  /\ lock' = "free"
  /\ cpc' = "idle"
  /\ result' = Outcome("start", TRUE, FALSE)
  /\ UNCHANGED <<connection, server_thread, loop, server, future, wpc, loopSt,
                 loopStop, task, shutdownJob, srv, nLaunched, teardown>>
  /\ UNCHANGED <<regVars, extVars>>

(***************************************************************************)
(* stop()                                                                   *)
(***************************************************************************)
\* stop() that clears the error although the instance is not running.
StopNotRunning_clears_error ==
  /\ lock = "free"
  /\ ~running
  /\ error_message' = "None"
  /\ result' = Outcome("stop", TRUE, TRUE)
  /\ UNCHANGED <<connection, running, server_thread, loop, server, lock, cpc, future,
                 wpc, loopSt, loopStop, task, shutdownJob, srv, nLaunched, teardown>>
  /\ UNCHANGED <<regVars, extVars>>

\* stop() while not self.running: the call returns at once.
StopNotRunning ==
  /\ lock = "free"
  /\ ~running
  /\ result' = Outcome("stop", TRUE, TRUE)
  /\ UNCHANGED callVars
  /\ UNCHANGED <<regVars, extVars>>

\* stop() of a running instance: running is cleared first.
StopBegin ==
  /\ lock = "free"
  /\ running
  /\ lock' = "stop"
  /\ running' = FALSE
  /\ cpc' = "stop_check"
  /\ teardown' = <<>>
  /\ UNCHANGED <<connection, error_message, server_thread, loop, server, future,
                 wpc, loopSt, loopStop, task, shutdownJob, srv, nLaunched, result>>
  /\ UNCHANGED <<regVars, extVars>>

\* stop(): `if self.loop and not self.loop.is_closed()`; with no loop, or a
\* closed one, the call goes on to the join.
StopCheck ==
  /\ cpc = "stop_check"
  /\ cpc' = IF loop # 0 /\ loopSt[loop] # "closed" THEN "stop_submit" ELSE "stop_join"
  /\ UNCHANGED <<connection, running, error_message, server_thread, loop, server,
                 lock, future, wpc, loopSt, loopStop, task, shutdownJob, srv,
                 nLaunched, result, teardown>>
  /\ UNCHANGED <<regVars, extVars>>

\* stop(): `if self.server`: with a server object, _shutdown_server is
\* submitted to the loop and awaited; with none, the call goes on to halt
\* the loop.  On a loop closed since the check the submission raises: the
\* error is logged and the call goes on to the join.
StopSubmit ==
  /\ cpc = "stop_submit"
  /\ IF server = 0
     THEN /\ cpc' = "stop_halt"
          /\ UNCHANGED <<shutdownJob, future, teardown>>
     ELSE IF loopSt[loop] = "closed"
          THEN /\ cpc' = "stop_join"
               /\ UNCHANGED <<shutdownJob, future, teardown>>
          ELSE /\ shutdownJob' = [shutdownJob EXCEPT ![loop] = "queued"]
               /\ future' = loop
               /\ teardown' = Append(teardown, "shutdown_requested")
               /\ cpc' = "stop_await"
  /\ UNCHANGED <<connection, running, error_message, server_thread, loop, server,
                 lock, wpc, loopSt, loopStop, task, srv, nLaunched, result>>
  /\ UNCHANGED <<regVars, extVars>>

\* stop(): future.result(timeout=2.0) returns, the shutdown having run.
StopAwaitDone ==
  /\ cpc = "stop_await"
  /\ shutdownJob[future] = "done"
  /\ cpc' = "stop_halt"
  /\ future' = 0
  /\ teardown' = Append(teardown, "shutdown_done")
  /\ UNCHANGED <<connection, running, error_message, server_thread, loop, server,
                 lock, wpc, loopSt, loopStop, task, shutdownJob, srv, nLaunched, result>>
  /\ UNCHANGED <<regVars, extVars>>

\* stop(): future.result(timeout=2.0) times out; the call goes on.
StopAwaitTimeout ==
  /\ cpc = "stop_await"
  /\ shutdownJob[future] # "done"
  /\ cpc' = "stop_halt"
  /\ future' = 0
  /\ teardown' = Append(teardown, "shutdown_timeout")
  /\ UNCHANGED <<connection, running, error_message, server_thread, loop, server,
                 lock, wpc, loopSt, loopStop, task, shutdownJob, srv, nLaunched, result>>
  /\ UNCHANGED <<regVars, extVars>>

\* stop(): loop.call_soon_threadsafe(loop.stop); on a loop closed in the
\* meantime the call raises and the error is logged.
StopHalt ==
  /\ cpc = "stop_halt"
  /\ cpc' = "stop_join"
  /\ IF loopSt[loop] = "closed"
     THEN UNCHANGED <<loopStop, teardown>>
     ELSE /\ loopStop' = [loopStop EXCEPT ![loop] = TRUE]
          /\ teardown' = Append(teardown, "halt")
  /\ UNCHANGED <<connection, running, error_message, server_thread, loop, server,
                 lock, future, wpc, loopSt, task, shutdownJob, srv, nLaunched, result>>
  /\ UNCHANGED <<regVars, extVars>>

\* stop(): the worker thread has ended, before the join or within its bound.
StopJoinDone ==
  /\ cpc = "stop_join"
  /\ server_thread # 0
  /\ ~Alive(server_thread)
  /\ cpc' = "stop_return"
  /\ teardown' = Append(teardown, "join_done")
  /\ UNCHANGED <<connection, running, error_message, server_thread, loop, server,
                 lock, future, wpc, loopSt, loopStop, task, shutdownJob, srv,
                 nLaunched, result>>
  /\ UNCHANGED <<regVars, extVars>>

\* stop(): join(timeout=3.0) returns with the worker thread still alive; a
\* warning is logged.
StopJoinTimeout ==
  /\ cpc = "stop_join"
  /\ server_thread # 0
  /\ Alive(server_thread)
  /\ cpc' = "stop_return"
  /\ teardown' = Append(teardown, "join_timeout")
  /\ UNCHANGED <<connection, running, error_message, server_thread, loop, server,
                 lock, future, wpc, loopSt, loopStop, task, shutdownJob, srv,
                 nLaunched, result>>
  /\ UNCHANGED <<regVars, extVars>>

\* stop() that reports a teardown timeout as its failure.
StopReturn_timeout_fails ==
  /\ cpc = "stop_return"
  /\ error_message' = "None"
  /\ lock' = "free"
  /\ cpc' = "idle"
  /\ result' = Outcome("stop",
                       \A i \in 1 .. Len(teardown) :
                         teardown[i] \notin {"shutdown_timeout", "join_timeout"},
                       FALSE)
  /\ UNCHANGED <<connection, running, server_thread, loop, server, future, wpc,
                 loopSt, loopStop, task, shutdownJob, srv, nLaunched, teardown>>
  /\ UNCHANGED <<regVars, extVars>>

\* stop(): the error is cleared and success returned.
StopReturn ==
  /\ cpc = "stop_return"
  /\ error_message' = "None"
  /\ lock' = "free"
  /\ cpc' = "idle"
  /\ result' = Outcome("stop", TRUE, FALSE)
  /\ UNCHANGED <<connection, running, server_thread, loop, server, future, wpc,
                 loopSt, loopStop, task, shutdownJob, srv, nLaunched, teardown>>
  /\ UNCHANGED <<regVars, extVars>>

(***************************************************************************)
(* The worker thread: _run_tcp_server, _start_tcp_server, _shutdown_server. *)
(***************************************************************************)
\* new_event_loop, set_event_loop, create_task: self.loop is the new loop,
\* the server task is scheduled on it and run_forever is entered.
WorkerNewLoop(w) ==
  /\ wpc[w] = "launched"
  /\ loop' = w
  /\ loopSt' = [loopSt EXCEPT ![w] = "open"]
  /\ task' = [task EXCEPT ![w] = "pending"]
  /\ wpc' = [wpc EXCEPT ![w] = "run_forever"]
  /\ UNCHANGED <<connection, running, error_message, server_thread, server, lock,
                 cpc, future, loopStop, shutdownJob, srv, nLaunched, result, teardown>>
  /\ UNCHANGED <<regVars, extVars>>

\* Setting the loop up raises: the except branch records the error.
WorkerSetupFault(w) ==
  /\ wpc[w] = "launched"
  /\ error_message' = "server_exception"
  /\ wpc' = [wpc EXCEPT ![w] = "finally"]
  /\ UNCHANGED <<connection, running, server_thread, loop, server, lock, cpc, future,
                 loopSt, loopStop, task, shutdownJob, srv, nLaunched, result, teardown>>
  /\ UNCHANGED <<regVars, extVars>>

\* The server task: StartAsyncTcpServer returns the server object, which is
\* kept in self.server, and serve_forever is awaited.
TaskServerCreated(w) ==
  /\ wpc[w] = "run_forever"
  /\ task[w] = "pending"
  /\ server' = w
  /\ srv' = [srv EXCEPT ![w] = "serving"]
  /\ task' = [task EXCEPT ![w] = "serving"]
  /\ UNCHANGED <<connection, running, error_message, server_thread, loop, lock, cpc,
                 future, wpc, loopSt, loopStop, shutdownJob, nLaunched, result, teardown>>
  /\ UNCHANGED <<regVars, extVars>>

\* The server task: StartAsyncTcpServer raises; the error is logged and
\* raised again, which ends the task with the exception; run_forever goes on.
TaskStartFault(w) ==
  /\ wpc[w] = "run_forever"
  /\ task[w] = "pending"
  /\ task' = [task EXCEPT ![w] = "failed"]
  /\ UNCHANGED <<connection, running, error_message, server_thread, loop, server,
                 lock, cpc, future, wpc, loopSt, loopStop, shutdownJob, srv,
                 nLaunched, result, teardown>>
  /\ UNCHANGED <<regVars, extVars>>

\* The server task: serve_forever raises (the bind fails, the transport
\* breaks); the task ends with the exception; run_forever goes on.
TaskServeFault(w) ==
  /\ wpc[w] = "run_forever"
  /\ task[w] = "serving"
  /\ task' = [task EXCEPT ![w] = "failed"]
  /\ srv' = [srv EXCEPT ![w] = "failed"]
  /\ UNCHANGED <<connection, running, error_message, server_thread, loop, server,
                 lock, cpc, future, wpc, loopSt, loopStop, shutdownJob, nLaunched,
                 result, teardown>>
  /\ UNCHANGED <<regVars, extVars>>

\* _shutdown_server on loop w: self.server.shutdown() ends the transport and
\* lets its serve_forever return.  A server object of another loop is used
\* from the wrong thread: the shutdown may or may not take effect.
ShutdownServer(w) ==
  /\ wpc[w] = "run_forever"
  /\ shutdownJob[w] = "queued"
  /\ shutdownJob' = [shutdownJob EXCEPT ![w] = "done"]
  /\ \E effective \in BOOLEAN :
       /\ server = w => effective
       /\ IF server # 0 /\ effective /\ srv[server] = "serving"
          THEN /\ srv' = [srv EXCEPT ![server] = "stopped"]
               /\ task' = [task EXCEPT ![server] =
                             IF @ = "serving" THEN "finished" ELSE @]
          ELSE UNCHANGED <<srv, task>>
  /\ UNCHANGED <<connection, running, error_message, server_thread, loop, server,
                 lock, cpc, future, wpc, loopSt, loopStop, nLaunched, result, teardown>>
  /\ UNCHANGED <<regVars, extVars>>

\* The scheduled loop.stop runs: run_forever returns.
WorkerHalt(w) ==
  /\ wpc[w] = "run_forever"
  /\ loopStop[w]
  /\ loopStop' = [loopStop EXCEPT ![w] = FALSE]
  /\ wpc' = [wpc EXCEPT ![w] = "finally"]
  /\ UNCHANGED <<connection, running, error_message, server_thread, loop, server,
                 lock, cpc, future, loopSt, task, shutdownJob, srv, nLaunched,
                 result, teardown>>
  /\ UNCHANGED <<regVars, extVars>>

\* finally: self.running = False.
WorkerFinally(w) ==
  /\ wpc[w] = "finally"
  /\ running' = FALSE
  /\ wpc' = [wpc EXCEPT ![w] = "cleanup"]
  /\ UNCHANGED <<connection, error_message, server_thread, loop, server, lock, cpc,
                 future, loopSt, loopStop, task, shutdownJob, srv, nLaunched,
                 result, teardown>>
  /\ UNCHANGED <<regVars, extVars>>

\* The tasks of loop l cancelled: the server task ends and its transport
\* with it, a queued shutdown is dropped.
Cancelled(l, f) ==
  [f EXCEPT ![l] = IF @ \in {"pending", "serving"} THEN "cancelled" ELSE @]

\* finally, the cleanup: the pending tasks of self.loop, whichever worker
\* made it, are cancelled, the loop is run until they are gone and then
\* closed.  On a loop that another thread is running, cancel() is called
\* from the wrong thread (it may or may not take effect) and
\* run_until_complete and close raise; on a loop with a loop.stop still
\* scheduled, run_until_complete raises after the cancellation; either error
\* is logged and the loop stays open.
WorkerCleanup(w) ==
  /\ wpc[w] = "cleanup"
  /\ wpc' = [wpc EXCEPT ![w] = "exited"]
  /\ IF loop = 0 \/ loopSt[loop] = "closed"
     THEN UNCHANGED <<task, srv, shutdownJob, loopSt, loopStop>>
     ELSE LET l == loop
              pending == task[l] \in {"pending", "serving"}
          IN IF wpc[l] = "run_forever"
             THEN /\ \E effective \in BOOLEAN :
                       IF effective /\ pending
                       THEN /\ task' = Cancelled(l, task)
                            /\ srv' = [srv EXCEPT ![l] = IF @ = "serving" THEN "stopped" ELSE @]
                       ELSE UNCHANGED <<task, srv>>
                  /\ UNCHANGED <<shutdownJob, loopSt, loopStop>>
             ELSE /\ task' = Cancelled(l, task)
                  /\ srv' = [srv EXCEPT ![l] = IF @ = "serving" THEN "stopped" ELSE @]
                  /\ shutdownJob' = [shutdownJob EXCEPT ![l] =
                                       IF @ = "queued" THEN "dropped" ELSE @]
                  /\ IF pending /\ loopStop[l]
                     THEN /\ loopStop' = [loopStop EXCEPT ![l] = FALSE]
                          /\ UNCHANGED loopSt
                     ELSE /\ loopSt' = [loopSt EXCEPT ![l] = "closed"]
                          /\ UNCHANGED loopStop
  /\ UNCHANGED <<connection, running, error_message, server_thread, loop, server,
                 lock, cpc, future, nLaunched, result, teardown>>
  /\ UNCHANGED <<regVars, extVars>>

WorkerNext ==
  \E w \in Workers :
    \/ WorkerNewLoop(w)
    \/ WorkerSetupFault(w)
    \/ TaskServerCreated(w)
    \/ TaskStartFault(w)
    \/ TaskServeFault(w)
    \/ ShutdownServer(w)
    \/ WorkerHalt(w)
    \/ WorkerFinally(w)
    \/ WorkerCleanup(w)

CallNext ==
  \/ StartAlreadyRunning
  \/ StartNoPort
  \/ StartLaunch
  \/ StartReturn
  \/ StopNotRunning
  \/ StopBegin
  \/ StopCheck
  \/ StopSubmit
  \/ StopAwaitDone
  \/ StopAwaitTimeout
  \/ StopHalt
  \/ StopJoinDone
  \/ StopJoinTimeout
  \/ StopReturn

NextLife == CallNext \/ WorkerNext

(***************************************************************************)
(* Specifications.  SpecReg: an instance built from any offered point list, *)
(* under read_register and write_register calls.  SpecLife: an instance     *)
(* with one seeded point, under start() and stop() calls and the steps of   *)
(* its workers.                                                             *)
(***************************************************************************)
(***************************************************************************)
(* The supervisor: SlaveManager.  Its callers run concurrently; each is     *)
(* inside at most one method.  The dict self.slaves is kept as the list of  *)
(* its entries in insertion order, a deleted entry leaving an empty slot,   *)
(* which is what an iterator over the dict walks.  An instance is seen      *)
(* here through its running flag, its lock and its worker: start() and      *)
(* stop() take the instance's lock, stop() clears running, tears down       *)
(* within its bounds and returns success also on a timeout; a worker that   *)
(* ends clears running in its finally block.  The instances are TCP ones.   *)
(***************************************************************************)
Ids == 1 .. MaxIds
Instances == 1 .. MaxInstances
Callers == 1 .. MaxCallers

EmptySlot == [id |-> 0, inst |-> 0]

\* self.slaves.get(id): the instance, 0 for None.
get_slave(id) ==
  IF \E k \in 1 .. Len(slaves) : slaves[k].id = id
  THEN slaves[CHOOSE k \in 1 .. Len(slaves) : slaves[k].id = id].inst
  ELSE 0

\* len(self.slaves).
Size == Cardinality({k \in 1 .. Len(slaves) : slaves[k].id # 0})

NoArg == [id |-> 0, inst |-> 0]
NoIter == [used |-> 0, pos |-> 0]
NoResult == [op |-> "none", id |-> 0, outcome |-> "none"]

\* The outcome of a SlaveManager call: "success", "failure", or "raised" for
\* an exception that leaves the method.
Returned(op, id, outcome) == [op |-> op, id |-> id, outcome |-> outcome]

\* ModbusSlave._log(message) of instance i, whose on_log is set or not: the
\* callback, when there is one, receives the message.
Messages == {"initialized", "started", "stopped"}
log(callback, i, message, received) ==
  IF callback THEN [received EXCEPT ![i] = @ \cup {message}] ELSE received

\* SlaveManager.__init__: on_log is None; no instance has a callback.
NoSink ==
  /\ on_log = FALSE
  /\ ion_log = [i \in Instances |-> FALSE]
  /\ sunk = [i \in Instances |-> {}]

\* SlaveManager.__init__: no entry, nobody inside.
MgrIdle ==
  /\ slaves = <<>>
  /\ nBuilt = 0
  /\ mlock = 0
  /\ irunning = [i \in Instances |-> FALSE]
  /\ ilive = [i \in Instances |-> FALSE]
  /\ ilock = [i \in Instances |-> 0]
  /\ tpc = [t \in Callers |-> "idle"]
  /\ spc = [t \in Callers |-> "none"]
  /\ targ = [t \in Callers |-> NoArg]
  /\ titer = [t \in Callers |-> NoIter]
  /\ tclean = [t \in Callers |-> TRUE]
  /\ mres = NoResult

\* The single instance of the other specifications stays as it is.
oneVars == <<regVars, lifeVars, accVars, fileVars, snapVars, valVars>>

(***************************************************************************)
(* add_slave                                                                *)
(***************************************************************************)
\* add_slave(config): `with self.lock`.
AddAcquire(t, id) ==
  /\ tpc[t] = "idle"
  /\ mlock = 0
  /\ nBuilt < MaxInstances
  /\ mlock' = t
  /\ tpc' = [tpc EXCEPT ![t] = "add"]
  /\ targ' = [targ EXCEPT ![t] = [id |-> id, inst |-> 0]]
  /\ UNCHANGED <<slaves, nBuilt, irunning, ilive, ilock, spc, titer, tclean, mres>>
  /\ UNCHANGED <<oneVars, logVars>>

\* add_slave with the membership test left out.
AddBody_overwrites(t) ==
  /\ tpc[t] = "add"
  /\ LET id == targ[t].id
         entry == [id |-> id, inst |-> nBuilt + 1]
     IN /\ nBuilt' = nBuilt + 1
        /\ slaves' = IF get_slave(id) # 0
                     THEN [k \in 1 .. Len(slaves) |->
                             IF slaves[k].id = id THEN entry ELSE slaves[k]]
                     ELSE Append(slaves, entry)
        /\ sunk' = log(FALSE, nBuilt + 1, "initialized", sunk)
        /\ ion_log' = [ion_log EXCEPT ![nBuilt + 1] = on_log]
        /\ mres' = Returned("add", id, "success")
  /\ mlock' = 0
  /\ tpc' = [tpc EXCEPT ![t] = "idle"]
  /\ targ' = [targ EXCEPT ![t] = NoArg]
  /\ UNCHANGED <<irunning, ilive, ilock, spc, titer, tclean, on_log>>
  /\ UNCHANGED oneVars

\* add_slave under the lock: a registered id is refused; otherwise the
\* instance is built (not running): its constructor sets its on_log to None
\* and then logs the initialization of its datastore; after the constructor
\* the instance is given the supervisor's callback, if there is one, and
\* entered, and the lock is released.
AddBody(t) ==
  /\ tpc[t] = "add"
  /\ LET id == targ[t].id
     IN IF get_slave(id) # 0
        THEN /\ mres' = Returned("add", id, "failure")
             /\ UNCHANGED <<slaves, nBuilt, ion_log, sunk>>
        ELSE /\ nBuilt' = nBuilt + 1
             /\ sunk' = log(FALSE, nBuilt + 1, "initialized", sunk)
             /\ ion_log' = [ion_log EXCEPT ![nBuilt + 1] = on_log]
             /\ slaves' = Append(slaves, [id |-> id, inst |-> nBuilt + 1])
             /\ mres' = Returned("add", id, "success")
  /\ mlock' = 0
  /\ tpc' = [tpc EXCEPT ![t] = "idle"]
  /\ targ' = [targ EXCEPT ![t] = NoArg]
  /\ UNCHANGED <<irunning, ilive, ilock, spc, titer, tclean, on_log>>
  /\ UNCHANGED oneVars

(***************************************************************************)
(* start() and stop() of an instance, called by caller t on targ[t].inst.   *)
(***************************************************************************)
\* start(): under the instance's lock; refused when running, else the
\* worker thread is launched.
InstStartBegin(t) ==
  /\ spc[t] = "start_call"
  /\ LET i == targ[t].inst
     IN /\ ilock[i] = 0
        /\ IF irunning[i]
           THEN /\ spc' = [spc EXCEPT ![t] = "failure"]
                /\ UNCHANGED <<ilock, ilive>>
           ELSE /\ ilock' = [ilock EXCEPT ![i] = t]
                /\ ilive' = [ilive EXCEPT ![i] = TRUE]
                /\ spc' = [spc EXCEPT ![t] = "starting"]
  /\ UNCHANGED <<slaves, nBuilt, mlock, irunning, tpc, targ, titer, tclean, mres>>
  /\ UNCHANGED <<oneVars, logVars>>

\* start(): running is set, the success logged and returned.
InstStartEnd(t) ==
  /\ spc[t] = "starting"
  /\ LET i == targ[t].inst
     IN /\ irunning' = [irunning EXCEPT ![i] = TRUE]
        /\ sunk' = log(ion_log[i], i, "started", sunk)
        /\ ilock' = [ilock EXCEPT ![i] = 0]
  /\ spc' = [spc EXCEPT ![t] = "success"]
  /\ tclean' = [u \in Callers |-> tclean[u] /\ tpc[u] # "stop_all"]
  /\ UNCHANGED <<slaves, nBuilt, mlock, ilive, tpc, targ, titer, mres, on_log, ion_log>>
  /\ UNCHANGED oneVars

\* stop(): under the instance's lock; success at once when not running,
\* else running is cleared and the teardown begins.
InstStopBegin(t) ==
  /\ spc[t] = "stop_call"
  /\ LET i == targ[t].inst
     IN /\ ilock[i] = 0
        /\ IF ~irunning[i]
           THEN /\ spc' = [spc EXCEPT ![t] = "success"]
                /\ UNCHANGED <<ilock, irunning>>
           ELSE /\ ilock' = [ilock EXCEPT ![i] = t]
                /\ irunning' = [irunning EXCEPT ![i] = FALSE]
                /\ spc' = [spc EXCEPT ![t] = "stopping"]
  /\ UNCHANGED <<slaves, nBuilt, mlock, ilive, tpc, targ, titer, tclean, mres>>
  /\ UNCHANGED <<oneVars, logVars>>

\* stop(): the teardown is over, the worker ended or still alive after the
\* join bound; the stop is logged and success returned either way.
InstStopEnd(t, joined) ==
  /\ spc[t] = "stopping"
  /\ LET i == targ[t].inst
     IN /\ ilock' = [ilock EXCEPT ![i] = 0]
        /\ ilive' = [ilive EXCEPT ![i] = IF joined THEN FALSE ELSE @]
        /\ sunk' = log(ion_log[i], i, "stopped", sunk)
  /\ spc' = [spc EXCEPT ![t] = "success"]
  /\ UNCHANGED <<slaves, nBuilt, mlock, irunning, tpc, targ, titer, tclean, mres,
                 on_log, ion_log>>
  /\ UNCHANGED oneVars

\* The worker of instance i ends by itself: finally, running = False.
InstWorkerEnds(i) ==
  /\ ilive[i]
  /\ ilive' = [ilive EXCEPT ![i] = FALSE]
  /\ irunning' = [irunning EXCEPT ![i] = FALSE]
  /\ UNCHANGED <<slaves, nBuilt, mlock, ilock, tpc, spc, targ, titer, tclean, mres>>
  /\ UNCHANGED <<oneVars, logVars>>

(***************************************************************************)
(* remove_slave                                                             *)
(***************************************************************************)
\* remove_slave(slave_id): `with self.lock`.
RemoveAcquire(t, id) ==
  /\ tpc[t] = "idle"
  /\ mlock = 0
  /\ mlock' = t
  /\ tpc' = [tpc EXCEPT ![t] = "remove"]
  /\ targ' = [targ EXCEPT ![t] = [id |-> id, inst |-> 0]]
  /\ UNCHANGED <<slaves, nBuilt, irunning, ilive, ilock, spc, titer, tclean, mres>>
  /\ UNCHANGED <<oneVars, logVars>>

\* remove_slave that deletes the entry of a running instance without
\* stopping it.
RemoveCheck_skips_stop(t) ==
  /\ tpc[t] = "remove"
  /\ LET id == targ[t].id
         i == get_slave(id)
     IN IF i = 0
        THEN /\ mres' = Returned("remove", id, "failure")
             /\ mlock' = 0
             /\ tpc' = [tpc EXCEPT ![t] = "idle"]
             /\ targ' = [targ EXCEPT ![t] = NoArg]
        ELSE /\ tpc' = [tpc EXCEPT ![t] = "remove_del"]
             /\ targ' = [targ EXCEPT ![t] = [id |-> id, inst |-> i]]
             /\ UNCHANGED <<mres, mlock>>
  /\ UNCHANGED <<slaves, nBuilt, irunning, ilive, ilock, spc, titer, tclean>>
  /\ UNCHANGED <<oneVars, logVars>>

\* remove_slave under the lock: an unknown id is refused; for a known one
\* `if slave.running: slave.stop()` is reached.
RemoveCheck(t) ==
  /\ tpc[t] = "remove"
  /\ LET id == targ[t].id
         i == get_slave(id)
     IN IF i = 0
        THEN /\ mres' = Returned("remove", id, "failure")
             /\ mlock' = 0
             /\ tpc' = [tpc EXCEPT ![t] = "idle"]
             /\ targ' = [targ EXCEPT ![t] = NoArg]
             /\ UNCHANGED spc
        ELSE /\ tpc' = [tpc EXCEPT ![t] = "remove_del"]
             /\ targ' = [targ EXCEPT ![t] = [id |-> id, inst |-> i]]
             /\ spc' = [spc EXCEPT ![t] = IF irunning[i] THEN "stop_call" ELSE "none"]
             /\ UNCHANGED <<mres, mlock>>
  /\ UNCHANGED <<slaves, nBuilt, irunning, ilive, ilock, titer, tclean>>
  /\ UNCHANGED <<oneVars, logVars>>

\* remove_slave: after the stop(), if any, whatever it returned, the entry
\* is deleted, the lock released and success returned.
RemoveDelete(t) ==
  /\ tpc[t] = "remove_del"
  /\ spc[t] \in {"none", "success", "failure"}
  /\ slaves' = [k \in 1 .. Len(slaves) |->
                  IF slaves[k].id = targ[t].id THEN EmptySlot ELSE slaves[k]]
  /\ mres' = Returned("remove", targ[t].id, "success")
  /\ mlock' = 0
  /\ tpc' = [tpc EXCEPT ![t] = "idle"]
  /\ spc' = [spc EXCEPT ![t] = "none"]
  /\ targ' = [targ EXCEPT ![t] = NoArg]
  /\ UNCHANGED <<nBuilt, irunning, ilive, ilock, titer, tclean>>
  /\ UNCHANGED <<oneVars, logVars>>

(***************************************************************************)
(* start_slave, stop_slave                                                  *)
(***************************************************************************)
\* start_slave that reports success for an id it does not find.
StartSlave_unknown_succeeds(t, id) ==
  /\ tpc[t] = "idle"
  /\ LET i == get_slave(id)
     IN IF i = 0
        THEN /\ mres' = Returned("start", id, "success")
             /\ UNCHANGED <<tpc, spc, targ>>
        ELSE /\ tpc' = [tpc EXCEPT ![t] = "start_slave"]
             /\ spc' = [spc EXCEPT ![t] = "start_call"]
             /\ targ' = [targ EXCEPT ![t] = [id |-> id, inst |-> i]]
             /\ UNCHANGED mres
  /\ UNCHANGED <<slaves, nBuilt, mlock, irunning, ilive, ilock, titer, tclean>>
  /\ UNCHANGED <<oneVars, logVars>>

\* start_slave(slave_id): get_slave, with no lock; an unknown id is refused,
\* else slave.start() is called.
StartSlave(t, id) ==
  /\ tpc[t] = "idle"
  /\ LET i == get_slave(id)
     IN IF i = 0
        THEN /\ mres' = Returned("start", id, "failure")
             /\ UNCHANGED <<tpc, spc, targ>>
        ELSE /\ tpc' = [tpc EXCEPT ![t] = "start_slave"]
             /\ spc' = [spc EXCEPT ![t] = "start_call"]
             /\ targ' = [targ EXCEPT ![t] = [id |-> id, inst |-> i]]
             /\ UNCHANGED mres
  /\ UNCHANGED <<slaves, nBuilt, mlock, irunning, ilive, ilock, titer, tclean>>
  /\ UNCHANGED <<oneVars, logVars>>

\* stop_slave(slave_id): get_slave, with no lock; an unknown id is refused,
\* else slave.stop() is called.
StopSlave(t, id) ==
  /\ tpc[t] = "idle"
  /\ LET i == get_slave(id)
     IN IF i = 0
        THEN /\ mres' = Returned("stop", id, "failure")
             /\ UNCHANGED <<tpc, spc, targ>>
        ELSE /\ tpc' = [tpc EXCEPT ![t] = "stop_slave"]
             /\ spc' = [spc EXCEPT ![t] = "stop_call"]
             /\ targ' = [targ EXCEPT ![t] = [id |-> id, inst |-> i]]
             /\ UNCHANGED mres
  /\ UNCHANGED <<slaves, nBuilt, mlock, irunning, ilive, ilock, titer, tclean>>
  /\ UNCHANGED <<oneVars, logVars>>

\* start_slave / stop_slave: the outcome of the instance's call is returned.
DelegateReturn(t) ==
  /\ tpc[t] \in {"start_slave", "stop_slave"}
  /\ spc[t] \in {"success", "failure"}
  /\ mres' = Returned(IF tpc[t] = "start_slave" THEN "start" ELSE "stop",
                      targ[t].id, spc[t])
  /\ tpc' = [tpc EXCEPT ![t] = "idle"]
  /\ spc' = [spc EXCEPT ![t] = "none"]
  /\ targ' = [targ EXCEPT ![t] = NoArg]
  /\ UNCHANGED <<slaves, nBuilt, mlock, irunning, ilive, ilock, titer, tclean>>
  /\ UNCHANGED <<oneVars, logVars>>

(***************************************************************************)
(* stop_all: `for slave in self.slaves.values()`, with no lock.  The dict   *)
(* iterator raises RuntimeError when the size of the dict is not the one it *)
(* started with; stop_all catches nothing.                                  *)
(***************************************************************************)
StopAllBegin(t) ==
  /\ tpc[t] = "idle"
  /\ tpc' = [tpc EXCEPT ![t] = "stop_all"]
  /\ titer' = [titer EXCEPT ![t] = [used |-> Size, pos |-> 0]]
  /\ tclean' = [tclean EXCEPT ![t] = TRUE]
  /\ UNCHANGED <<slaves, nBuilt, mlock, irunning, ilive, ilock, spc, targ, mres>>
  /\ UNCHANGED <<oneVars, logVars>>

\* The slots of the dict behind the iterator's position that hold an entry.
Ahead(t) == {k \in titer[t].pos + 1 .. Len(slaves) : slaves[k].id # 0}

\* stop_all that gives up after the first stop() it has made.
StopAllNext_stops_once(t) ==
  /\ tpc[t] = "stop_all"
  /\ spc[t] \in {"none", "success", "failure"}
  /\ IF Size # titer[t].used
     THEN /\ mres' = Returned("stop_all", 0, "raised")
          /\ tpc' = [tpc EXCEPT ![t] = "idle"]
          /\ spc' = [spc EXCEPT ![t] = "none"]
          /\ targ' = [targ EXCEPT ![t] = NoArg]
          /\ titer' = [titer EXCEPT ![t] = NoIter]
     ELSE IF Ahead(t) = {} \/ spc[t] # "none"
     THEN /\ mres' = Returned("stop_all", 0, "success")
          /\ tpc' = [tpc EXCEPT ![t] = "idle"]
          /\ spc' = [spc EXCEPT ![t] = "none"]
          /\ targ' = [targ EXCEPT ![t] = NoArg]
          /\ titer' = [titer EXCEPT ![t] = NoIter]
     ELSE LET k == CHOOSE k \in Ahead(t) : \A j \in Ahead(t) : k <= j
          IN /\ titer' = [titer EXCEPT ![t].pos = k]
             /\ targ' = [targ EXCEPT ![t] = slaves[k]]
             /\ spc' = [spc EXCEPT ![t] =
                          IF irunning[slaves[k].inst] THEN "stop_call" ELSE "none"]
             /\ UNCHANGED <<mres, tpc>>
  /\ UNCHANGED <<slaves, nBuilt, mlock, irunning, ilive, ilock, tclean>>
  /\ UNCHANGED <<oneVars, logVars>>

\* stop_all: the iterator is advanced; at the end the method returns; for
\* the entry reached `if slave.running: slave.stop()` is run.
StopAllNext(t) ==
  /\ tpc[t] = "stop_all"
  /\ spc[t] \in {"none", "success", "failure"}
  /\ IF Size # titer[t].used
     THEN /\ mres' = Returned("stop_all", 0, "raised")
          /\ tpc' = [tpc EXCEPT ![t] = "idle"]
          /\ spc' = [spc EXCEPT ![t] = "none"]
          /\ targ' = [targ EXCEPT ![t] = NoArg]
          /\ titer' = [titer EXCEPT ![t] = NoIter]
     ELSE IF Ahead(t) = {}
     THEN /\ mres' = Returned("stop_all", 0, "success")
          /\ tpc' = [tpc EXCEPT ![t] = "idle"]
          /\ spc' = [spc EXCEPT ![t] = "none"]
          /\ targ' = [targ EXCEPT ![t] = NoArg]
          /\ titer' = [titer EXCEPT ![t] = NoIter]
     ELSE LET k == CHOOSE k \in Ahead(t) : \A j \in Ahead(t) : k <= j
          IN /\ titer' = [titer EXCEPT ![t].pos = k]
             /\ targ' = [targ EXCEPT ![t] = slaves[k]]
             /\ spc' = [spc EXCEPT ![t] =
                          IF irunning[slaves[k].inst] THEN "stop_call" ELSE "none"]
             /\ UNCHANGED <<mres, tpc>>
  /\ UNCHANGED <<slaves, nBuilt, mlock, irunning, ilive, ilock, tclean>>
  /\ UNCHANGED <<oneVars, logVars>>

NextMgr ==
  \/ \E t \in Callers, id \in Ids : AddAcquire(t, id)
  \/ \E t \in Callers : AddBody(t)
  \/ \E t \in Callers, id \in Ids : RemoveAcquire(t, id)
  \/ \E t \in Callers : RemoveCheck(t)
  \/ \E t \in Callers : RemoveDelete(t)
  \/ \E t \in Callers, id \in Ids : StartSlave(t, id)
  \/ \E t \in Callers, id \in Ids : StopSlave(t, id)
  \/ \E t \in Callers : DelegateReturn(t)
  \/ \E t \in Callers : StopAllBegin(t)
  \/ \E t \in Callers : StopAllNext(t)
  \/ \E t \in Callers : InstStartBegin(t)
  \/ \E t \in Callers : InstStartEnd(t)
  \/ \E t \in Callers : InstStopBegin(t)
  \/ \E t \in Callers, joined \in BOOLEAN : InstStopEnd(t, joined)
  \/ \E i \in Instances : InstWorkerEnds(i)

(***************************************************************************)
(* File records.  A buffer is a sequence of bytes; a dict entry or a file   *)
(* that may be missing is <<x>> when it is there and <<>> when it is not.   *)
(* Paths are numbered.                                                      *)
(***************************************************************************)
FileNumbers == 1 .. MaxFiles
Paths == 1 .. MaxFiles

Absent == <<>>
Present(x) == <<x>>

FileRecordConfig(fn, max, flen, trig, lenEn, qty, ro) ==
  [file_number |-> fn, file_path |-> fn, max_size |-> max, file_length |-> flen,
   trigger_enabled |-> trig, trigger_function_code |-> 6, trigger_address |-> 0,
   length_register_enabled |-> lenEn, length_function_code |-> 3,
   length_address |-> 0, length_quantity |-> qty, read_only |-> ro]

\* The configurations offered for file number fn: plain; read-only; with a
\* trigger and a fixed length; with a trigger and a length register at the
\* trigger's address; with a two-register length; with a fixed length and a
\* length register; with a fixed length and a length register of a kind
\* read_file_record does not read; with such a length register alone.
FileKinds(fn) ==
  { FileRecordConfig(fn, MaxSize, None, FALSE, FALSE, 2, FALSE),
    FileRecordConfig(fn, MaxSize, None, FALSE, FALSE, 2, TRUE),
    FileRecordConfig(fn, MaxSize, <<2>>, TRUE, FALSE, 2, FALSE),
    FileRecordConfig(fn, MaxSize, None, TRUE, TRUE, 1, FALSE),
    FileRecordConfig(fn, MaxSize, None, FALSE, TRUE, 2, FALSE),
    FileRecordConfig(fn, MaxSize, <<MaxSize>>, FALSE, TRUE, 1, FALSE),
    [FileRecordConfig(fn, MaxSize, <<2>>, FALSE, TRUE, 1, FALSE)
       EXCEPT !.length_function_code = 4],
    [FileRecordConfig(fn, MaxSize, None, FALSE, TRUE, 1, FALSE)
       EXCEPT !.length_function_code = 4] }

FileLists == ListsOver(UNION {FileKinds(fn) : fn \in FileNumbers}, MaxFiles)

\* A file on disk: whether it exists, whether it can be read, its content.
NoFile == [exists |-> FALSE, readable |-> TRUE, content |-> <<>>]
FileOf(content) == [exists |-> TRUE, readable |-> TRUE, content |-> content]
LongContent == [k \in 1 .. MaxSize + 2 |-> 1]
DiskFiles ==
  { NoFile, FileOf(<<1, 1>>), FileOf(LongContent),
    [exists |-> TRUE, readable |-> FALSE, content |-> LongContent] }

\* bytes[start:end] of Python, for start >= 0 and end >= 0.
Slice(bytes, start, end) ==
  LET stop == IF end < Len(bytes) THEN end ELSE Len(bytes)
  IN IF start < stop THEN SubSeq(bytes, start + 1, stop) ELSE <<>>

\* The first configuration with the file number, as its index, 0 for None.
find_file(file_number) ==
  LET hits == {k \in 1 .. Len(file_records) : file_records[k].file_number = file_number}
  IN IF hits = {} THEN 0 ELSE CHOOSE k \in hits : \A j \in hits : k <= j

\* _init_file_records: the configurations are loaded in order; an existing
\* file gives its first max_size bytes, a missing one an empty buffer, and a
\* file that cannot be read no buffer.
RECURSIVE LoadFiles(_, _, _, _)
LoadFiles(records, files, k, data) ==
  IF k > Len(records) THEN data
  ELSE LET fc == records[k]
           f == files[fc.file_path]
       IN LoadFiles(records, files, k + 1,
            IF ~f.exists THEN [data EXCEPT ![fc.file_number] = Present(<<>>)]
            ELSE IF f.readable
            THEN [data EXCEPT ![fc.file_number] = Present(Slice(f.content, 0, fc.max_size))]
            ELSE data)

init_file_records(enabled, records, files) ==
  IF ~enabled THEN [fn \in FileNumbers |-> Absent]
  ELSE LoadFiles(records, files, 1, [fn \in FileNumbers |-> Absent])

\* slave_context.getValues(3, address, count=count) on the bank's list: the
\* slice of the list, shorter than count where the list ends.
getValuesN(block, address, count) ==
  Slice(block, address + 1, address + 1 + count)

\* The byte length the length registers give, <<>> for the exception of
\* an index past the values read.
RECURSIVE SumShifted(_, _, _)
SumShifted(values, quantity, i) ==
  IF i > Len(values) THEN 0
  ELSE values[i] * (2 ^ (16 * (quantity - i))) + SumShifted(values, quantity, i + 1)

register_length(values, quantity) ==
  IF quantity = 1
  THEN IF Len(values) >= 1 THEN <<values[1]>> ELSE <<>>
  ELSE IF quantity = 2
  THEN IF Len(values) >= 2 THEN <<values[1] * 65536 + values[2]>> ELSE <<>>
  ELSE <<SumShifted(values, quantity, 1)>>

\* The banks after step 1 of read_file_record, the trigger write; raises
\* says whether setValues raises, which the step catches and logs.
trigger(fc, banks, file_number, raises) ==
  IF fc.trigger_enabled /\ fc.trigger_function_code = 6 /\ ~raises
  THEN [banks EXCEPT !["holding_register"] = setValues(@, fc.trigger_address, file_number)]
  ELSE banks

\* read_length asking the length register before the fixed file_length.
read_length_register_first(fc, banks, buffer, record_number, record_length) ==
  IF record_length # None THEN <<IntOf(record_length) * 2>>
  ELSE IF fc.length_register_enabled
  THEN IF fc.length_function_code = 3
       THEN register_length(getValuesN(banks["holding_register"], fc.length_address,
                                       fc.length_quantity), fc.length_quantity)
       ELSE <<>>
  ELSE IF fc.file_length # None THEN <<IntOf(fc.file_length)>>
  ELSE <<Len(buffer) - record_number * 2>>

\* read_length taking the record_length of the call as a count of bytes.
read_length_in_bytes(fc, banks, buffer, record_number, record_length) ==
  IF record_length # None THEN <<IntOf(record_length)>>
  ELSE IF fc.file_length # None THEN <<IntOf(fc.file_length)>>
  ELSE IF fc.length_register_enabled
  THEN IF fc.length_function_code = 3
       THEN register_length(getValuesN(banks["holding_register"], fc.length_address,
                                       fc.length_quantity), fc.length_quantity)
       ELSE <<>>
  ELSE <<Len(buffer) - record_number * 2>>

\* Step 2 of read_file_record: the byte length, <<>> where the call
\* fails, with the error in read_length_error.
read_length(fc, banks, buffer, record_number, record_length) ==
  IF record_length # None THEN <<IntOf(record_length) * 2>>
  ELSE IF fc.file_length # None THEN <<IntOf(fc.file_length)>>
  ELSE IF fc.length_register_enabled
  THEN IF fc.length_function_code = 3
       THEN register_length(getValuesN(banks["holding_register"], fc.length_address,
                                       fc.length_quantity), fc.length_quantity)
       ELSE <<>>
  ELSE <<Len(buffer) - record_number * 2>>

read_length_error(fc) ==
  IF fc.length_function_code = 3 THEN "length_register" ELSE "length_function_code"

FileFailure(error) == [success |-> FALSE, data |-> <<>>, error |-> error]

\* read_file_record resolving the length before it writes the trigger.
read_file_record_length_first(file_number, record_number, record_length, raises) ==
  LET k == find_file(file_number)
  IN IF ~enable_file_operations
     THEN [result |-> FileFailure("disabled"), banks |-> store]
     ELSE IF k = 0
     THEN [result |-> FileFailure("not_configured"), banks |-> store]
     ELSE IF file_data[file_number] = Absent
     THEN [result |-> FileFailure("no_data"), banks |-> store]
     ELSE LET fc == file_records[k]
              buffer == file_data[file_number][1]
              byte_length == read_length(fc, store, buffer, record_number, record_length)
              banks == trigger(fc, store, file_number, raises)
          IN IF byte_length = <<>>
             THEN [result |-> FileFailure(read_length_error(fc)), banks |-> banks]
             ELSE LET start == record_number * 2
                      end == start + byte_length[1]
                  IN [result |-> [success |-> TRUE,
                                  data |-> Slice(buffer, start, end),
                                  error |-> ""],
                      banks |-> banks]

\* read_file_record failing a read that reaches past the end of the buffer.
read_file_record_rejects_overread(file_number, record_number, record_length, raises) ==
  LET k == find_file(file_number)
  IN IF ~enable_file_operations
     THEN [result |-> FileFailure("disabled"), banks |-> store]
     ELSE IF k = 0
     THEN [result |-> FileFailure("not_configured"), banks |-> store]
     ELSE IF file_data[file_number] = Absent
     THEN [result |-> FileFailure("no_data"), banks |-> store]
     ELSE LET fc == file_records[k]
              buffer == file_data[file_number][1]
              banks == trigger(fc, store, file_number, raises)
              byte_length == read_length(fc, banks, buffer, record_number, record_length)
          IN IF byte_length = <<>>
             THEN [result |-> FileFailure(read_length_error(fc)), banks |-> banks]
             ELSE LET start == record_number * 2
                      end == start + byte_length[1]
                  IN IF end > Len(buffer)
                     THEN [result |-> FileFailure("exception"), banks |-> banks]
                     ELSE [result |-> [success |-> TRUE,
                                       data |-> Slice(buffer, start, end),
                                       error |-> ""],
                           banks |-> banks]

\* read_file_record: the OperationResult and the banks it leaves.
read_file_record(file_number, record_number, record_length, raises) ==
  LET k == find_file(file_number)
  IN IF ~enable_file_operations
     THEN [result |-> FileFailure("disabled"), banks |-> store]
     ELSE IF k = 0
     THEN [result |-> FileFailure("not_configured"), banks |-> store]
     ELSE IF file_data[file_number] = Absent
     THEN [result |-> FileFailure("no_data"), banks |-> store]
     ELSE LET fc == file_records[k]
              buffer == file_data[file_number][1]
              banks == trigger(fc, store, file_number, raises)
              byte_length == read_length(fc, banks, buffer, record_number, record_length)
          IN IF byte_length = <<>>
             THEN [result |-> FileFailure(read_length_error(fc)), banks |-> banks]
             ELSE LET start == record_number * 2
                      end == start + byte_length[1]
                  IN [result |-> [success |-> TRUE,
                                  data |-> Slice(buffer, start, end),
                                  error |-> ""],
                      banks |-> banks]

\* Overwrite cutting the buffer behind the written range.
Overwrite_truncates(buffer, offset, data, size) ==
  [i \in 1 .. size |->
     IF i > offset /\ i <= offset + Len(data) THEN data[i - offset]
     ELSE IF i <= Len(buffer) THEN buffer[i] ELSE 0]

\* current_data[offset:offset+len(data)] = data on the buffer extended with
\* zeros to size bytes.
Overwrite(buffer, offset, data, size) ==
  [i \in 1 .. (IF Len(buffer) < size THEN size ELSE Len(buffer)) |->
     IF i > offset /\ i <= offset + Len(data) THEN data[i - offset]
     ELSE IF i <= Len(buffer) THEN buffer[i] ELSE 0]

\* write_file_record letting the exception of a failed save reach the outer
\* handler, which returns a failure.
write_file_record_save_fatal(file_number, record_number, data, saved) ==
  LET k == find_file(file_number)
      fc == file_records[k]
      had == IF file_data[file_number] = Absent THEN <<>> ELSE file_data[file_number][1]
      offset == record_number * 2
      required_size == offset + Len(data)
      written == Overwrite(had, offset, data, required_size)
      same == [success |-> FALSE, error |-> "", buffers |-> file_data, files |-> disk,
               warned |-> FALSE]
  IN IF ~enable_file_operations THEN [same EXCEPT !.error = "disabled"]
     ELSE IF k = 0 THEN [same EXCEPT !.error = "not_configured"]
     ELSE IF fc.read_only THEN [same EXCEPT !.error = "read_only"]
     ELSE IF required_size > fc.max_size
     THEN [same EXCEPT !.error = "max_size",
                       !.buffers = [file_data EXCEPT ![file_number] = Present(had)]]
     ELSE [success |-> ~(fc.file_path # 0 /\ ~saved),
           error |-> IF fc.file_path # 0 /\ ~saved THEN "exception" ELSE "",
           buffers |-> [file_data EXCEPT ![file_number] = Present(written)],
           files |-> IF fc.file_path # 0 /\ saved
                     THEN [disk EXCEPT ![fc.file_path] = FileOf(written)]
                     ELSE disk,
           warned |-> FALSE]

\* write_file_record without the read_only test.
write_file_record_ignores_read_only(file_number, record_number, data, saved) ==
  LET k == find_file(file_number)
      fc == file_records[k]
      had == IF file_data[file_number] = Absent THEN <<>> ELSE file_data[file_number][1]
      offset == record_number * 2
      required_size == offset + Len(data)
      written == Overwrite(had, offset, data, required_size)
      same == [success |-> FALSE, error |-> "", buffers |-> file_data, files |-> disk,
               warned |-> FALSE]
  IN IF ~enable_file_operations THEN [same EXCEPT !.error = "disabled"]
     ELSE IF k = 0 THEN [same EXCEPT !.error = "not_configured"]
     ELSE IF required_size > fc.max_size
     THEN [same EXCEPT !.error = "max_size",
                       !.buffers = [file_data EXCEPT ![file_number] = Present(had)]]
     ELSE [success |-> TRUE, error |-> "",
           buffers |-> [file_data EXCEPT ![file_number] = Present(written)],
           files |-> IF fc.file_path # 0 /\ saved
                     THEN [disk EXCEPT ![fc.file_path] = FileOf(written)]
                     ELSE disk,
           warned |-> fc.file_path # 0 /\ ~saved]

\* write_file_record keeping the bytes after the written range out of the
\* file it saves.
write_file_record_saves_range(file_number, record_number, data, saved) ==
  LET k == find_file(file_number)
      fc == file_records[k]
      had == IF file_data[file_number] = Absent THEN <<>> ELSE file_data[file_number][1]
      offset == record_number * 2
      required_size == offset + Len(data)
      written == Overwrite(had, offset, data, required_size)
      same == [success |-> FALSE, error |-> "", buffers |-> file_data, files |-> disk,
               warned |-> FALSE]
  IN IF ~enable_file_operations THEN [same EXCEPT !.error = "disabled"]
     ELSE IF k = 0 THEN [same EXCEPT !.error = "not_configured"]
     ELSE IF fc.read_only THEN [same EXCEPT !.error = "read_only"]
     ELSE IF required_size > fc.max_size
     THEN [same EXCEPT !.error = "max_size",
                       !.buffers = [file_data EXCEPT ![file_number] = Present(had)]]
     ELSE [success |-> TRUE, error |-> "",
           buffers |-> [file_data EXCEPT ![file_number] = Present(written)],
           files |-> IF fc.file_path # 0 /\ saved
                     THEN [disk EXCEPT ![fc.file_path] = FileOf(Slice(written, 0, required_size))]
                     ELSE disk,
           warned |-> fc.file_path # 0 /\ ~saved]

\* write_file_record: the OperationResult, the buffers and the files it
\* leaves, and whether it logged the warning of a failed save; saved tells
\* whether the file could be opened and written.
write_file_record(file_number, record_number, data, saved) ==
  LET k == find_file(file_number)
      fc == file_records[k]
      had == IF file_data[file_number] = Absent THEN <<>> ELSE file_data[file_number][1]
      offset == record_number * 2
      required_size == offset + Len(data)
      written == Overwrite(had, offset, data, required_size)
      same == [success |-> FALSE, error |-> "", buffers |-> file_data, files |-> disk,
               warned |-> FALSE]
  IN IF ~enable_file_operations THEN [same EXCEPT !.error = "disabled"]
     ELSE IF k = 0 THEN [same EXCEPT !.error = "not_configured"]
     ELSE IF fc.read_only THEN [same EXCEPT !.error = "read_only"]
     ELSE IF required_size > fc.max_size
     THEN [same EXCEPT !.error = "max_size",
                       !.buffers = [file_data EXCEPT ![file_number] = Present(had)]]
     ELSE [success |-> TRUE, error |-> "",
           buffers |-> [file_data EXCEPT ![file_number] = Present(written)],
           files |-> IF fc.file_path # 0 /\ saved
                     THEN [disk EXCEPT ![fc.file_path] = FileOf(written)]
                     ELSE disk,
           warned |-> fc.file_path # 0 /\ ~saved]

NoFileOp ==
  [op |-> "none", file_number |-> 0, record_number |-> 0, record_length |-> None,
   bytes |-> <<>>, saved |-> FALSE, raised |-> FALSE, warned |-> FALSE,
   success |-> FALSE, data |-> <<>>, error |-> ""]

\* No file record is configured and no file operation was called.
NoFiles ==
  /\ enable_file_operations = FALSE
  /\ file_records = <<>>
  /\ file_data = [fn \in FileNumbers |-> Absent]
  /\ disk = [p \in Paths |-> NoFile]
  /\ nFileOps = 0
  /\ lastFile = NoFileOp

\* The arguments the calls are made with.
RecordNumbers == {0, 1, 3}
RecordLengths == {None, <<1>>, <<2>>}
WriteData == {<<2>>, <<2, 3>>, <<2, 3, 2, 3>>}

\* The call reaches the trigger write of a "write register" trigger.
Triggers(file_number) ==
  /\ enable_file_operations
  /\ find_file(file_number) # 0
  /\ file_data[file_number] # Absent
  /\ file_records[find_file(file_number)].trigger_enabled
  /\ file_records[find_file(file_number)].trigger_function_code = 6

ReadFileRecord(file_number, record_number, record_length, raises) ==
  LET r == read_file_record(file_number, record_number, record_length, raises)
  IN /\ nFileOps < MaxFileOps
     /\ raises => Triggers(file_number)
     /\ nFileOps' = nFileOps + 1
     /\ store' = r.banks
     /\ lastFile' = [op |-> "read", file_number |-> file_number,
                     record_number |-> record_number,
                     record_length |-> record_length, bytes |-> <<>>,
                     saved |-> FALSE, raised |-> raises, warned |-> FALSE,
                     success |-> r.result.success,
                     data |-> r.result.data, error |-> r.result.error]
     /\ UNCHANGED <<enable_file_operations, file_records, file_data, disk>>
     /\ UNCHANGED <<points, initialized_count, cbLog, nOps, lastOp>>
     /\ UNCHANGED <<lifeVars, accVars, mgrVars, logVars, valVars, snapVars>>

WriteFileRecord(file_number, record_number, data, saved) ==
  LET r == write_file_record(file_number, record_number, data, saved)
  IN /\ nFileOps < MaxFileOps
     /\ nFileOps' = nFileOps + 1
     /\ file_data' = r.buffers
     /\ disk' = r.files
     /\ lastFile' = [op |-> "write", file_number |-> file_number,
                     record_number |-> record_number, record_length |-> None,
                     bytes |-> data, saved |-> saved, raised |-> FALSE,
                     warned |-> r.warned, success |-> r.success,
                     data |-> <<>>, error |-> r.error]
     /\ UNCHANGED <<enable_file_operations, file_records>>
     /\ UNCHANGED <<regVars, lifeVars, accVars, mgrVars, logVars, valVars, snapVars>>

NextFile ==
  \/ \E fn \in FileNumbers, rn \in RecordNumbers, rl \in RecordLengths,
          raises \in BOOLEAN :
       ReadFileRecord(fn, rn, rl, raises)
  \/ \E fn \in FileNumbers, rn \in {0, 1}, data \in WriteData, saved \in BOOLEAN :
       WriteFileRecord(fn, rn, data, saved)

(***************************************************************************)
(* get_all_values: the configured points are read in order with            *)
(* read_register, and the points read with success are appended to the     *)
(* list of their bank.  An entry is the address and the value read.        *)
(***************************************************************************)
\* A register_type that is none of the four banks.
UnknownType == "holding"

EmptyValues == [t \in RegisterTypes |-> <<>>]

\* No get_all_values() has returned.
NoSnapshot == snapshot = EmptyValues

RECURSIVE AppendPoints(_, _, _)
AppendPoints(pts, i, values) ==
  IF i > Len(pts) THEN values
  ELSE LET point == pts[i]
           r == read_register(point.register_type, point.address)
       IN AppendPoints(pts, i + 1,
            IF r.success /\ point.register_type \in RegisterTypes
            THEN [values EXCEPT ![point.register_type] =
                    Append(@, [address |-> point.address, value |-> r.data])]
            ELSE values)

get_all_values == AppendPoints(points, 1, EmptyValues)

GetAllValues ==
  /\ nOps < MaxOps
  /\ nOps' = nOps + 1
  /\ snapshot' = get_all_values
  /\ lastOp' = [NoOp EXCEPT !.op = "get_all_values"]
  /\ UNCHANGED <<points, store, initialized_count, cbLog>>
  /\ UNCHANGED <<lifeVars, accVars, mgrVars, logVars, valVars, fileVars>>

\* The register types offered to the calls of this specification and the
\* point lists it is built over: points of one bank and points of no bank.
SnapTypes == {"holding_register", UnknownType}
SnapLists ==
  ListsOver(PointsOf("holding_register")
              \cup {RegisterPoint(a, UnknownType, <<HighBound>>, None, None, FALSE) :
                      a \in Addresses},
            MaxPoints)

NextSnap ==
  \/ \E t \in SnapTypes, a \in Addresses : ReadRegister(t, a)
  \/ \E t \in SnapTypes, a \in Addresses, v \in Values, cbRaises \in BOOLEAN :
       WriteRegister(t, a, v, cbRaises)
  \/ GetAllValues

(***************************************************************************)
(* RegisterManager.validate_points.  An error message is kept as the facts  *)
(* it is formatted from.  "raised" stands for an exception that leaves the  *)
(* method: the KeyError of address_map[point.register_type] for a register  *)
(* type that is none of the four, or the TypeError of validate_value.       *)
(***************************************************************************)
Conflict(point) ==
  [kind |-> "conflict", register_type |-> point.register_type,
   address |-> point.address, value |-> None]
OutOfRange(point) ==
  [kind |-> "range", register_type |-> point.register_type,
   address |-> point.address, value |-> point.value]

Checked(pts, outcome, errors) == [points |-> pts, outcome |-> outcome, errors |-> errors]

\* `address in address_map[register_type]`.
Listed(address_map, point) ==
  \E k \in 1 .. Len(address_map[point.register_type]) :
    address_map[point.register_type][k] = point.address

\* The loop over the points, from the i-th on.
RECURSIVE CheckPoints(_, _, _)
CheckPoints(pts, i, r) ==
  IF i > Len(pts) \/ r.raised THEN r
  ELSE LET point == pts[i]
       IN IF point.register_type \notin RegisterTypes
          THEN [r EXCEPT !.raised = TRUE]
          ELSE LET s == IF Listed(r.address_map, point)
                        THEN [r EXCEPT !.errors = Append(@, Conflict(point))]
                        ELSE [r EXCEPT !.address_map[point.register_type] =
                                         Append(@, point.address)]
                   valid == validate_value(point, point.value)
               IN IF valid = "raise" THEN [s EXCEPT !.raised = TRUE]
                  ELSE IF valid = "false"
                  THEN CheckPoints(pts, i + 1,
                                   [s EXCEPT !.errors = Append(@, OutOfRange(point))])
                  ELSE CheckPoints(pts, i + 1, s)

validate_points(pts) ==
  LET r == CheckPoints(pts, 1, [address_map |-> [t \in RegisterTypes |-> <<>>],
                                errors |-> <<>>, raised |-> FALSE])
  IN IF r.raised THEN Checked(pts, "raised", <<>>)
     ELSE IF r.errors # <<>> THEN Checked(pts, "failure", r.errors)
     ELSE Checked(pts, "success", <<>>)

\* No list has been given to validate_points.
NotValidated == validation = Checked(<<>>, "none", <<>>)

\* validate_points(points) on the list at hand.
ValidatePoints ==
  /\ validation' = validate_points(validation.points)
  /\ UNCHANGED <<regVars, lifeVars, accVars, mgrVars, fileVars, snapVars, logVars>>

\* The points offered to validate_points: of a boolean bank, of a numeric
\* bank and of no bank; with a plain value, a bounded value inside and one
\* above its bounds, and a value that is not a number, without and with
\* bounds.
MaxChecked == 3
CheckedKinds ==
  { [value |-> <<HighBound>>, min_value |-> None, max_value |-> None],
    [value |-> <<LowBound>>, min_value |-> <<LowBound>>, max_value |-> <<HighBound>>],
    [value |-> <<HighBound + 1>>, min_value |-> <<LowBound>>, max_value |-> <<HighBound>>],
    [value |-> NaV, min_value |-> None, max_value |-> None],
    [value |-> NaV, min_value |-> <<LowBound>>, max_value |-> <<HighBound>>] }
CheckedPoints ==
  { RegisterPoint(a, t, k.value, k.min_value, k.max_value, FALSE) :
      a \in 0 .. BankSize - 1, t \in {"coil", "holding_register"}, k \in CheckedKinds }
  \cup { RegisterPoint(a, UnknownType, <<HighBound>>, None, None, FALSE) :
           a \in 0 .. BankSize - 1 }
CheckedLists == ListsOver(CheckedPoints, MaxChecked)

\* No write_register call is in progress.
NoReq == [register_type |-> "", address |-> 0, value |-> NaV]

AccIdle == apc = "idle" /\ areq = NoReq

\* Nothing outside the registers and the lifecycle is in progress.
ExtIdle == AccIdle /\ MgrIdle /\ NoFiles /\ NoSnapshot /\ NoSink /\ NotValidated

InitReg ==
  /\ \E pts \in PointLists : Constructed(pts)
  /\ Stopped("TCP")
  /\ ExtIdle

LifePoints == <<RegisterPoint(0, "holding_register", <<HighBound>>, None, None, FALSE)>>

InitLife ==
  /\ Constructed(LifePoints)
  /\ \E conn \in Connections : Stopped(conn)
  /\ ExtIdle

SpecReg == InitReg /\ [][NextReg]_vars

SpecLife == InitLife /\ [][NextLife]_vars

(***************************************************************************)
(* Register accesses next to a serving worker.  write_register takes no     *)
(* lock: between its point check and its store update the other threads     *)
(* run.  The server of a serving worker writes into the same context for    *)
(* the requests it receives: the library checks that the request lies       *)
(* inside the bank (for the context's address + 1) and calls setValues; it  *)
(* consults no point and calls no callback.                                 *)
(***************************************************************************)
\* The banks a write request of the protocol can address (coils by 5 / 15,
\* holding registers by 6 / 16), and the addresses it can reach in them.
WireTypes == {"coil", "holding_register"}
WireAddresses == 0 .. BankSize - 2
WireCells(t) == IF t = "coil" THEN {0, 1} ELSE LowBound .. HighBound

\* write_register up to the point check: the error it returns there, "" when
\* the call goes on to the store.
point_check(register_type, address, value) ==
  LET p == find_point(register_type, address)
      check == IF p = 0 THEN "true" ELSE validate_value(points[p], value)
  IN IF p # 0 /\ points[p].read_only THEN "read_only"
     ELSE IF check = "false" THEN "out_of_range"
     ELSE IF check = "raise" THEN "exception"
     ELSE ""

\* write_register, first half: the point is looked up and checked; a
\* rejected call returns here.
WriteRegisterCheck(register_type, address, value) ==
  /\ apc = "idle"
  /\ nOps < MaxOps
  /\ LET e == point_check(register_type, address, value)
     IN IF e # ""
        THEN /\ nOps' = nOps + 1
             /\ lastOp' = [op |-> "write", register_type |-> register_type,
                           address |-> address, value |-> value,
                           success |-> FALSE, data |-> 0, error |-> e]
             /\ UNCHANGED <<apc, areq>>
        ELSE /\ apc' = "checked"
             /\ areq' = [register_type |-> register_type, address |-> address,
                         value |-> value]
             /\ UNCHANGED <<nOps, lastOp>>
  /\ UNCHANGED <<points, store, initialized_count, cbLog>>
  /\ UNCHANGED <<lifeVars, mgrVars, logVars, valVars, fileVars, snapVars>>

\* write_register, second half: setValues on the banks as they are now, the
\* callback, the result.
WriteRegisterStore ==
  /\ apc = "checked"
  /\ LET w == write_register(areq.register_type, areq.address, areq.value, FALSE)
     IN /\ store' = w.banks
        /\ cbLog' = IF w.called
                    THEN Append(cbLog, <<areq.register_type, areq.address, areq.value>>)
                    ELSE cbLog
        /\ lastOp' = [op |-> "write", register_type |-> areq.register_type,
                      address |-> areq.address, value |-> areq.value,
                      success |-> w.success, data |-> 0, error |-> w.error]
  /\ nOps' = nOps + 1
  /\ apc' = "idle"
  /\ areq' = NoReq
  /\ UNCHANGED <<points, initialized_count>>
  /\ UNCHANGED <<lifeVars, mgrVars, logVars, valVars, fileVars, snapVars>>

\* The server of worker w serves a write request of a client.
WireWrite(w, register_type, address, n) ==
  /\ wpc[w] = "run_forever"
  /\ srv[w] = "serving"
  /\ store' = [store EXCEPT ![register_type] = setValues(@, address, n)]
  /\ store' # store
  /\ UNCHANGED <<points, initialized_count, cbLog, nOps, lastOp>>
  /\ UNCHANGED <<lifeVars, extVars>>

AccNext ==
  \/ \E t \in WireTypes, a \in WireAddresses : ReadRegister(t, a)
  \/ \E t \in WireTypes, a \in WireAddresses : WriteRegisterCheck(t, a, <<LowBound>>)
  \/ WriteRegisterStore
  \/ \E w \in Workers, t \in WireTypes, a \in WireAddresses :
       \E n \in WireCells(t) : WireWrite(w, t, a, n)

NextAcc == NextLife \/ AccNext

\* An instance that has been started, has served and has been stopped
\* before: its earlier workers have ended, their loops are closed, and one
\* worker is left to launch.
Restartable ==
  LET k == MaxWorkers - 1
      Ended(x, y) == [w \in Workers |-> IF w <= k THEN x ELSE y]
  IN /\ connection = "TCP"
     /\ running = FALSE
     /\ error_message = "None"
     /\ server_thread = k
     /\ loop = k
     /\ server = k
     /\ lock = "free"
     /\ cpc = "idle"
     /\ future = 0
     /\ wpc = Ended("exited", "unborn")
     /\ loopSt = Ended("closed", "none")
     /\ loopStop = [w \in Workers |-> FALSE]
     /\ task = Ended("finished", "none")
     /\ shutdownJob = Ended("done", "none")
     /\ srv = Ended("stopped", "none")
     /\ nLaunched = k
     /\ result = [op |-> "stop", success |-> TRUE, noop |-> FALSE, seq |-> 0]
     /\ teardown = <<"shutdown_requested", "shutdown_done", "halt", "join_done">>

\* The instances of SpecAcc: the restartable one, and a serial one without
\* its port, which never starts.
InitAcc ==
  /\ Constructed(LifePoints)
  /\ Restartable \/ Stopped("RTU_no_port")
  /\ ExtIdle

SpecAcc == InitAcc /\ [][NextAcc]_vars

\* A new supervisor; the single instance of the other specifications is not
\* touched.
InitMgr ==
  /\ Constructed(LifePoints)
  /\ Stopped("TCP")
  /\ AccIdle
  /\ MgrIdle
  /\ NoFiles
  /\ NoSnapshot
  /\ NoSink
  /\ NotValidated

SpecMgr == InitMgr /\ [][NextMgr]_vars

\* A new supervisor that was given a log callback, under add_slave,
\* start_slave and stop_slave calls.
InitLog ==
  /\ Constructed(LifePoints)
  /\ Stopped("TCP")
  /\ AccIdle
  /\ MgrIdle
  /\ NoFiles
  /\ NoSnapshot
  /\ NotValidated
  /\ on_log = TRUE
  /\ ion_log = [i \in Instances |-> FALSE]
  /\ sunk = [i \in Instances |-> {}]

NextLog ==
  \/ \E t \in Callers, id \in Ids : AddAcquire(t, id)
  \/ \E t \in Callers : AddBody(t)
  \/ \E t \in Callers, id \in Ids : StartSlave(t, id)
  \/ \E t \in Callers, id \in Ids : StopSlave(t, id)
  \/ \E t \in Callers : DelegateReturn(t)
  \/ \E t \in Callers : InstStartBegin(t)
  \/ \E t \in Callers : InstStartEnd(t)
  \/ \E t \in Callers : InstStopBegin(t)
  \/ \E t \in Callers, joined \in BOOLEAN : InstStopEnd(t, joined)
  \/ \E i \in Instances : InstWorkerEnds(i)

SpecLog == InitLog /\ [][NextLog]_vars

\* A point list at hand, not validated yet, under validate_points calls.
InitVal ==
  /\ Constructed(LifePoints)
  /\ Stopped("TCP")
  /\ AccIdle
  /\ MgrIdle
  /\ NoFiles
  /\ NoSnapshot
  /\ NoSink
  /\ \E pts \in CheckedLists : validation = Checked(pts, "none", <<>>)

NextVal == ValidatePoints

SpecVal == InitVal /\ [][NextVal]_vars

\* An instance constructed over the configured files and the files on disk;
\* with file operations disabled, at most one file is configured.
InitFile ==
  /\ Constructed(LifePoints)
  /\ Stopped("TCP")
  /\ AccIdle
  /\ MgrIdle
  /\ \E enabled \in BOOLEAN, records \in FileLists, f \in DiskFiles :
       /\ enabled \/ Len(records) <= 1
       /\ enable_file_operations = enabled
       /\ file_records = records
       /\ disk = [p \in Paths |-> f]
       /\ file_data = init_file_records(enabled, records, [p \in Paths |-> f])
  /\ nFileOps = 0
  /\ lastFile = NoFileOp
  /\ NoSnapshot
  /\ NoSink
  /\ NotValidated

SpecFile == InitFile /\ [][NextFile]_vars

\* An instance with a read-only point on the holding register that the
\* triggers write, constructed over files of two sizes: a small plain file,
\* a plain file and a file with a trigger; under file record and register
\* calls.
SmallSize == 2
GuardPoints == <<RegisterPoint(0, "holding_register", <<0>>, None, None, TRUE)>>
GuardKinds(fn) ==
  { FileRecordConfig(fn, SmallSize, None, FALSE, FALSE, 2, FALSE),
    FileRecordConfig(fn, MaxSize, None, FALSE, FALSE, 2, FALSE),
    FileRecordConfig(fn, MaxSize, <<2>>, TRUE, FALSE, 2, FALSE) }
GuardLists == ListsOver(UNION {GuardKinds(fn) : fn \in FileNumbers}, MaxFiles)

InitGuard ==
  /\ Constructed(GuardPoints)
  /\ Stopped("TCP")
  /\ AccIdle
  /\ MgrIdle
  /\ \E records \in GuardLists, f \in DiskFiles :
       /\ enable_file_operations = TRUE
       /\ file_records = records
       /\ disk = [p \in Paths |-> f]
       /\ file_data = init_file_records(TRUE, records, [p \in Paths |-> f])
  /\ nFileOps = 0
  /\ lastFile = NoFileOp
  /\ NoSnapshot
  /\ NoSink
  /\ NotValidated

NextGuard ==
  \/ \E fn \in FileNumbers : ReadFileRecord(fn, 0, None, FALSE)
  \/ \E fn \in FileNumbers, rn \in {0, 1}, data \in WriteData :
       WriteFileRecord(fn, rn, data, TRUE)
  \/ \E a \in {0, 1}, v \in {<<0>>, <<1>>} :
       WriteRegister("holding_register", a, v, FALSE)

SpecGuard == InitGuard /\ [][NextGuard]_vars

\* An instance built over points of the holding registers and of no bank.
InitSnap ==
  /\ \E pts \in SnapLists : Constructed(pts)
  /\ Stopped("TCP")
  /\ ExtIdle

SpecSnap == InitSnap /\ [][NextSnap]_vars

(***************************************************************************)
(* Properties of the register interface.                                    *)
(***************************************************************************)
\* Point i is configured at (register_type, address).
At(i, register_type, address) ==
  /\ points[i].register_type = register_type
  /\ points[i].address = address

\* Point i is the only point configured at its bank and address.
OnlyPointThere(i) ==
  \A j \in 1 .. Len(points) :
    At(j, points[i].register_type, points[i].address) => j = i

\* Point i is the first point of the list configured at its bank and address.
FirstPointThere(i) ==
  \A j \in 1 .. Len(points) :
    At(j, points[i].register_type, points[i].address) => i <= j

InBank(address) == address \in 0 .. BankSize - 1

\* The step is a call of write_register (recorded in lastOp').
WriteStep == nOps' = nOps + 1 /\ lastOp'.op = "write"

\* C1: on a freshly constructed instance every configured point whose bank
\* is one of the four kinds, whose address lies inside the bank, whose value
\* is an integer and which shares its bank and address with no other point
\* reads back as its value at its own address: both the read a caller could
\* make now and the read that was made as the first call return success and
\* the point's value.
C1_SeededPointReadsBack ==
  \A i \in 1 .. Len(points) :
    LET p == points[i]
    IN ( /\ p.register_type \in RegisterTypes
         /\ InBank(p.address)
         /\ IsInt(p.value)
         /\ OnlyPointThere(i) )
       => /\ nOps = 0 =>
               LET r == read_register(p.register_type, p.address)
               IN r.success /\ r.data = IntOf(p.value)
          /\ ( /\ nOps = 1
               /\ lastOp.op = "read"
               /\ lastOp.register_type = p.register_type
               /\ lastOp.address = p.address )
             => lastOp.success /\ lastOp.data = IntOf(p.value)

\* Witness of C1: the first call was a read of a point seeded with a
\* non-zero value at the last address of its bank, and it returned the value.
C1_Witness ==
  /\ nOps = 1
  /\ lastOp.op = "read"
  /\ lastOp.success
  /\ \E i \in 1 .. Len(points) :
       /\ At(i, lastOp.register_type, lastOp.address)
       /\ OnlyPointThere(i)
       /\ points[i].address = BankSize - 1
       /\ IsInt(points[i].value)
       /\ lastOp.data = IntOf(points[i].value)
       /\ lastOp.data # 0

\* C2 (as claimed): after a successful write_register(bank, a, v) a read of
\* (bank, a) returns v, at addresses with a configured point and at
\* addresses without one.
C2_WriteThenReadReturnsValue ==
  (lastOp.op = "write" /\ lastOp.success)
    => LET r == read_register(lastOp.register_type, lastOp.address)
       IN r.success /\ r.data = IntOf(lastOp.value)

\* C3 (as claimed): a write_register to a bank and address at which some
\* configured point is read_only fails, changes no bank and does not invoke
\* the value-changed callback.
C3_AnyReadOnlyPointRejects ==
  [][ ( /\ WriteStep
        /\ \E i \in 1 .. Len(points) :
             /\ At(i, lastOp'.register_type, lastOp'.address)
             /\ points[i].read_only )
      => /\ ~lastOp'.success
         /\ store' = store
         /\ cbLog' = cbLog ]_vars

\* C3 (amended): a write_register to a bank and address whose first
\* configured point is read_only fails, whatever the value, changes no bank
\* and does not invoke the value-changed callback.
C3_FirstReadOnlyPointRejects ==
  [][ ( /\ WriteStep
        /\ \E i \in 1 .. Len(points) :
             /\ At(i, lastOp'.register_type, lastOp'.address)
             /\ FirstPointThere(i)
             /\ points[i].read_only )
      => /\ ~lastOp'.success
         /\ lastOp'.error = "read_only"
         /\ store' = store
         /\ cbLog' = cbLog ]_vars

\* Witness of C3: a write of a valid value to the address of a read-only
\* point that is the first at its address was rejected as read-only.
C3_Witness ==
  /\ lastOp.op = "write"
  /\ lastOp.error = "read_only"
  /\ IsInt(lastOp.value)
  /\ \E i \in 1 .. Len(points) :
       /\ At(i, lastOp.register_type, lastOp.address)
       /\ FirstPointThere(i)
       /\ points[i].read_only

\* C4: for the point that write_register consults at a numeric bank and
\* address (the only one there or, among duplicates, the first), a write of
\* an integer below its min_value or above its max_value fails, changes no
\* bank and does not invoke the value-changed callback; a write of an
\* integer inside [min_value, max_value], bounds included, passes the check
\* and, the point not being read_only, succeeds, stores the value and
\* invokes the callback.
C4_BoundsChecked ==
  [][ \A i \in 1 .. Len(points) :
        ( /\ WriteStep
          /\ At(i, lastOp'.register_type, lastOp'.address)
          /\ FirstPointThere(i)
          /\ points[i].register_type \notin BoolTypes
          /\ points[i].min_value # None
          /\ points[i].max_value # None
          /\ IsInt(lastOp'.value) )
        => LET v == IntOf(lastOp'.value)
               lo == IntOf(points[i].min_value)
               hi == IntOf(points[i].max_value)
           IN /\ (v < lo \/ v > hi)
                   => /\ ~lastOp'.success
                      /\ store' = store
                      /\ cbLog' = cbLog
              /\ (lo <= v /\ v <= hi /\ ~points[i].read_only)
                   => /\ lastOp'.success
                      /\ getValues(store'[points[i].register_type], points[i].address) = <<v>>
                      /\ cbLog' = Append(cbLog, <<lastOp'.register_type, lastOp'.address, lastOp'.value>>) ]_vars

\* Witness of C4: a write above the bounds of a bounded point was rejected
\* as out of range after a write of the upper bound itself was accepted.
C4_Witness ==
  /\ nOps = 2
  /\ lastOp.op = "write"
  /\ lastOp.error = "out_of_range"
  /\ \E i \in 1 .. Len(points) :
       /\ At(i, lastOp.register_type, lastOp.address)
       /\ FirstPointThere(i)
       /\ points[i].register_type \notin BoolTypes
       /\ points[i].max_value # None
       /\ IntOf(lastOp.value) > IntOf(points[i].max_value)
       /\ cbLog = <<<<lastOp.register_type, lastOp.address, points[i].max_value>>>>

(***************************************************************************)
(* Properties of the lifecycle.                                             *)
(***************************************************************************)
\* The step is the return of a start() or stop() call.
Returns(op) == result'.seq # result.seq /\ result'.op = op

Happened(e) == \E i \in 1 .. Len(teardown) : teardown[i] = e

\* Every occurrence of e in the teardown record precedes every occurrence
\* of f.
Precedes(e, f) ==
  \A i, j \in 1 .. Len(teardown) :
    (teardown[i] = e /\ teardown[j] = f) => i < j

C6_StopOnStoppedIsNoOp ==
  [][ (Returns("stop") /\ cpc = "idle")
      => /\ ~running
         /\ result'.success
         /\ UNCHANGED <<running, server_thread, wpc, loop, loopSt, loopStop, task,
                        shutdownJob, server, srv, error_message, store>> ]_vars

\* Witness of C6: stop() was called on an instance that a fault of its
\* worker had stopped, and the recorded error is still there.
C6_Witness ==
  /\ result.op = "stop"
  /\ result.noop
  /\ result.success
  /\ ~running
  /\ error_message # "None"

\* C7 (as claimed): a start() that follows a completed stop() returns
\* success and sets running, and from then on the running flag is cleared
\* only by stop() or by the worker that this start() launched, never by a
\* step of a worker launched before.
C7_RestartStaysRunning ==
  [][ /\ (Returns("start") /\ result.op = "stop" /\ ~result.noop /\ ~running)
        => (result'.success /\ running')
      /\ (running /\ ~running')
        => \/ cpc' = "stop_check"
           \/ wpc'[server_thread] # wpc[server_thread] ]_vars

\* C8 (as claimed): once the server task of the worker has failed after a
\* successful start() and the workers have nothing left to do, the instance
\* is not reported running and the error is recorded.
C8_WorkerFaultReported ==
  ( /\ cpc = "idle"
    /\ result.op = "start"
    /\ result.success
    /\ server_thread # 0
    /\ task[server_thread] = "failed"
    /\ ~ENABLED WorkerNext )
  => (~running /\ error_message # "None")

\* C9 (as claimed): in a stop() of a running instance the transport
\* shutdown is requested and awaited, then the loop is told to halt, then
\* the worker is joined; and the loop is not told to halt while a transport
\* exists whose shutdown has not been requested.
C9_TeardownOrder ==
  [][ /\ (cpc = "stop_halt" /\ cpc' = "stop_join" /\ Happened("halt")'
            /\ server # 0 /\ srv[server] = "serving")
        => Happened("shutdown_requested")
      /\ Returns("stop") /\ cpc = "stop_return"
        => /\ Precedes("shutdown_requested", "shutdown_done")
           /\ Precedes("shutdown_requested", "shutdown_timeout")
           /\ \A e \in {"shutdown_requested", "shutdown_done", "shutdown_timeout"} :
                Precedes(e, "halt")
           /\ \A e \in {"halt", "join_done"} : Precedes(e, "join_timeout")
           /\ Precedes("halt", "join_done") ]_vars

\* C10: a stop() of a running instance that returns, returns a success
\* outcome and leaves the instance not running, also when the shutdown of
\* the transport timed out or the worker was alive after the join.
C10_StopSucceedsDespiteTimeouts ==
  [][ (Returns("stop") /\ cpc = "stop_return")
      => /\ result'.success
         /\ ~result'.noop
         /\ ~running' ]_vars

\* Witness of C10: a stop() returned success after both the shutdown of the
\* transport and the join of the worker had timed out.
C10_Witness ==
  /\ result.op = "stop"
  /\ result.success
  /\ ~result.noop
  /\ ~running
  /\ cpc = "idle"
  /\ Happened("shutdown_timeout")
  /\ Happened("join_timeout")
  /\ Alive(server_thread)

\* C11 (as claimed): once a stop() of a running instance has returned and
\* the workers have nothing left to do, every worker has terminated and no
\* transport is served, at whatever moment after start() the stop() came.
C11_StoppedWorkerTerminates ==
  ( /\ cpc = "idle"
    /\ result.op = "stop"
    /\ ~result.noop
    /\ ~ENABLED WorkerNext )
  => \A w \in Workers : ~Alive(w) /\ srv[w] # "serving"

\* C12 (as claimed): at every moment at most one worker of the instance is
\* alive.
C12_OneLiveWorker ==
  Cardinality({w \in Workers : Alive(w)}) <= 1

(***************************************************************************)
(* Properties of register accesses next to a serving worker.                *)
(***************************************************************************)
\* The step is a step of a read_register or write_register call.
AccessStep == nOps' # nOps \/ apc' # apc

\* C13 (as claimed): read_register and write_register run under the
\* instance's lock: no step of theirs is taken while start() or stop()
\* holds the lock, and between the point check and the store update of one
\* write_register no other access changes a bank.
C13_AccessUnderLock ==
  [][ /\ AccessStep => lock = "free"
      /\ (apc = "checked" /\ apc' = "checked") => store' = store ]_vars

(***************************************************************************)
(* Properties of the supervisor.                                            *)
(***************************************************************************)
\* The instances that have an entry in the registry.
Registered == {slaves[k].inst : k \in {j \in 1 .. Len(slaves) : slaves[j].id # 0}}

\* Caller t is inside a start() or stop() of an instance, or waiting to
\* enter it.
InInstanceCall(t) == spc[t] \in {"start_call", "starting", "stop_call", "stopping"}

\* C14 (as claimed): no caller holds the registry lock while it is inside a
\* start() or stop() of an instance.
C14_RegistryLockNotHeldAcrossStop ==
  \A t \in Callers : InInstanceCall(t) => mlock # t

\* C15: an add_slave whose slave_id is registered returns a failure, leaves
\* the entries as they are (the id still maps to the instance registered
\* first) and builds no instance; and the registry never holds two entries
\* for one id, whatever the interleaving of the callers.
C15_DuplicateAddRefused ==
  [][ /\ \A t \in Callers :
           (tpc[t] = "add" /\ tpc'[t] = "idle" /\ get_slave(targ[t].id) # 0)
           => /\ mres' = Returned("add", targ[t].id, "failure")
              /\ slaves' = slaves
              /\ nBuilt' = nBuilt
      /\ \A id \in Ids :
           Cardinality({k \in 1 .. Len(slaves') : slaves'[k].id = id}) <= 1 ]_vars

\* Witness of C15: an add_slave of a registered id has been refused while
\* the other caller is inside its own add_slave, and the first instance
\* built is still the one registered.
C15_Witness ==
  /\ mres.op = "add"
  /\ mres.outcome = "failure"
  /\ get_slave(mres.id) = 1
  /\ nBuilt = 1
  /\ \E t \in Callers : tpc[t] = "add" /\ targ[t].id = mres.id

\* C16: a remove_slave of a registered id never returns a failure; when it
\* finds the instance running it calls its stop() with the entry still in
\* place; the entry stays until that stop() has returned; and then,
\* whatever the stop() returned, the entry is deleted and success returned.
C16_RemoveStopsThenUnregisters ==
  [][ \A t \in Callers :
        /\ (tpc[t] = "remove" /\ tpc'[t] # "remove" /\ get_slave(targ[t].id) # 0)
           => /\ tpc'[t] = "remove_del"
              /\ slaves' = slaves
              /\ irunning[get_slave(targ[t].id)] => spc'[t] = "stop_call"
        /\ (tpc[t] = "remove_del" /\ tpc'[t] = "remove_del")
           => get_slave(targ[t].id)' = targ[t].inst
        /\ (tpc[t] = "remove_del" /\ tpc'[t] # "remove_del")
           => /\ spc[t] \notin {"stop_call", "stopping"}
              /\ mres' = Returned("remove", targ[t].id, "success")
              /\ get_slave(targ[t].id)' = 0 ]_vars

\* Witness of C16: a remove_slave has returned success for an instance whose
\* stop() ran into the join bound: the instance is not running, its worker
\* is still alive, and it has no entry any more.
C16_Witness ==
  /\ mres.op = "remove"
  /\ mres.outcome = "success"
  /\ get_slave(mres.id) = 0
  /\ \A t \in Callers : tpc[t] = "idle"
  /\ \E i \in 1 .. nBuilt : i \notin Registered /\ ~irunning[i] /\ ilive[i]

\* C17: start_slave and stop_slave of an id that is not registered do not
\* reach any instance and return a failure, and so does remove_slave; none
\* of them changes the registry or an instance.
C17_UnknownIdRefused ==
  [][ \A t \in Callers :
        /\ \A id \in Ids :
             (tpc[t] = "idle" /\ get_slave(id) = 0)
             => ~(tpc'[t] \in {"start_slave", "stop_slave"} /\ targ'[t].id = id)
        /\ ( /\ tpc' = tpc
             /\ mres' # mres
             /\ mres'.op \in {"start", "stop"}
             /\ get_slave(mres'.id) = 0 )
           => /\ mres'.outcome = "failure"
              /\ UNCHANGED <<slaves, nBuilt, irunning, ilive, ilock>>
        /\ (tpc[t] = "remove" /\ tpc'[t] # "remove" /\ get_slave(targ[t].id) = 0)
           => /\ tpc'[t] = "idle"
              /\ mres' = Returned("remove", targ[t].id, "failure")
              /\ UNCHANGED <<slaves, nBuilt, irunning, ilive, ilock>> ]_vars

\* Witness of C17: a start_slave of an id that is not registered has been
\* refused while the instance registered under the other id is running.
C17_Witness ==
  /\ mres.op = "start"
  /\ mres.outcome = "failure"
  /\ get_slave(mres.id) = 0
  /\ \A t \in Callers : tpc[t] = "idle"
  /\ \E i \in Registered : irunning[i]

\* C18: when a stop_all returns, no start() having returned success while it
\* ran, no registered instance is running; and no step of a stop_all
\* changes the registry.
C18_StopAllStopsEveryInstance ==
  [][ \A t \in Callers :
        /\ ( /\ tpc[t] = "stop_all"
             /\ tpc'[t] = "idle"
             /\ mres'.outcome = "success"
             /\ tclean[t] )
           => \A i \in Registered : ~irunning'[i]
        /\ (tpc[t] = "stop_all" /\ (tpc'[t] # tpc[t] \/ titer'[t] # titer[t]))
           => slaves' = slaves ]_vars

\* Witness of C18: a stop_all has returned with two instances registered,
\* both stopped by a stop() that ran into the join bound (their workers are
\* still alive).
C18_Witness ==
  /\ mres.op = "stop_all"
  /\ mres.outcome = "success"
  /\ \A t \in Callers : tpc[t] = "idle"
  /\ Cardinality(Registered) = 2
  /\ \A i \in Registered : ~irunning[i] /\ ilive[i]


(***************************************************************************)
(* File records                                                            *)
(***************************************************************************)
\* The configuration the calls find for the file number is a writable one.
Writable(fn) ==
  /\ enable_file_operations
  /\ find_file(fn) # 0
  /\ ~file_records[find_file(fn)].read_only

FileStep(op) == nFileOps' = nFileOps + 1 /\ lastFile'.op = op

\* C19: with file operations enabled, writing an even number of bytes, at
\* most max_size of them, at record 0 of a configured writable file
\* succeeds, and reading that file right after it at record 0 with
\* record_length half the number of bytes returns exactly the bytes written,
\* whatever the buffer held and whatever the trigger and length settings.
C19_WriteThenReadRoundTrip ==
  [][/\ ( /\ FileStep("write")
          /\ Writable(lastFile'.file_number)
          /\ lastFile'.record_number = 0
          /\ Len(lastFile'.bytes) % 2 = 0
          /\ Len(lastFile'.bytes) <= file_records[find_file(lastFile'.file_number)].max_size )
        => lastFile'.success
     /\ ( /\ FileStep("read")
          /\ lastFile.op = "write"
          /\ lastFile.success
          /\ lastFile.record_number = 0
          /\ Len(lastFile.bytes) % 2 = 0
          /\ lastFile'.file_number = lastFile.file_number
          /\ lastFile'.record_number = 0
          /\ lastFile'.record_length = <<Len(lastFile.bytes) \div 2>> )
        => lastFile'.success /\ lastFile'.data = lastFile.bytes]_vars

\* A read that returned the four bytes written before it, from a file with a
\* trigger and a length register.
C19_Witness ==
  /\ nFileOps = 2
  /\ lastFile.op = "read"
  /\ lastFile.success
  /\ lastFile.record_number = 0
  /\ lastFile.record_length = <<2>>
  /\ lastFile.data = <<2, 3, 2, 3>>
  /\ file_records[find_file(lastFile.file_number)].trigger_enabled
  /\ file_records[find_file(lastFile.file_number)].length_register_enabled

\* C20: after a successful write_file_record whose file was saved, the file
\* at file_path holds the whole buffer of the file number, also when the
\* file was longer than max_size when the buffers were loaded.
C20_SavedFileIsWholeBuffer ==
  (lastFile.op = "write" /\ lastFile.success /\ lastFile.saved)
    => LET fc == file_records[find_file(lastFile.file_number)]
       IN /\ disk[fc.file_path].exists
          /\ disk[fc.file_path].content = file_data[lastFile.file_number][1]

\* Two bytes written over a buffer loaded from a file longer than max_size:
\* the buffer is max_size bytes long, the other file still has its length.
C20_Witness ==
  /\ lastFile.op = "write" /\ lastFile.success /\ lastFile.saved
  /\ Len(lastFile.bytes) = 2
  /\ lastFile.record_number = 0
  /\ Len(file_data[lastFile.file_number][1]) = MaxSize
  /\ \E p \in Paths : disk[p].content = LongContent

\* The call is made with file operations enabled on a configured file that
\* has a buffer.
Served(fn) ==
  /\ enable_file_operations
  /\ find_file(fn) # 0
  /\ file_data[fn] # Absent

\* The cells of the holding registers that a length register of quantity
\* words at address covers, where the bank has them all.
LengthCells(hr, address, quantity) ==
  IF Len(hr) >= address + 1 + quantity
  THEN <<[k \in 1 .. quantity |-> hr[address + 1 + k]]>>
  ELSE <<>>

\* C21: read_file_record takes the byte length from the first of: the
\* record_length of the call, times 2; the fixed file_length of the file;
\* the length register, if enabled; the bytes from the offset to the end of
\* the buffer.  A read with a record_length, or of a file with a
\* file_length, succeeds whatever the length register is.
C21_LengthPriority ==
  [][(FileStep("read") /\ Served(lastFile'.file_number))
       => LET fn == lastFile'.file_number
              fc == file_records[find_file(fn)]
              buffer == file_data[fn][1]
              start == lastFile'.record_number * 2
              rl == lastFile'.record_length
              cells == LengthCells(store'["holding_register"], fc.length_address,
                                   fc.length_quantity)
              Returned_(n) == lastFile'.success /\ lastFile'.data = Slice(buffer, start, start + n)
          IN IF rl # None THEN Returned_(2 * rl[1])
             ELSE IF fc.file_length # None THEN Returned_(fc.file_length[1])
             ELSE IF fc.length_register_enabled
             THEN IF fc.length_function_code = 3 /\ cells # <<>>
                  THEN IF fc.length_quantity = 1 THEN Returned_(cells[1][1])
                       ELSE Returned_(cells[1][1] * 65536 + cells[1][2])
                  ELSE ~lastFile'.success
             ELSE Returned_(Len(buffer) - start)]_vars

\* A read without record_length of a file whose fixed length is MaxSize
\* and whose length register holds another value returned MaxSize bytes.
C21_Witness ==
  /\ lastFile.op = "read"
  /\ lastFile.success
  /\ lastFile.record_length = None
  /\ lastFile.record_number = 0
  /\ Len(lastFile.data) = MaxSize
  /\ LET fc == file_records[find_file(lastFile.file_number)]
     IN /\ fc.file_length = <<MaxSize>>
        /\ fc.length_register_enabled
        /\ fc.length_function_code = 3
        /\ store["holding_register"][fc.length_address + 2] = HighBound

\* C22 (as claimed): a write_file_record on a configured writable file fails
\* with the size error exactly when record_number*2 + len(data) > max_size,
\* and on that failure it leaves every buffer and every file as they were.
C22_SizeErrorLeavesBufferUnchanged ==
  [][(FileStep("write") /\ Writable(lastFile'.file_number))
       => LET fc == file_records[find_file(lastFile'.file_number)]
              required_size == lastFile'.record_number * 2 + Len(lastFile'.bytes)
          IN /\ lastFile'.success <=> required_size <= fc.max_size
             /\ ~lastFile'.success
                  => /\ lastFile'.error = "max_size"
                     /\ file_data' = file_data
                     /\ disk' = disk]_vars

\* C23: a read of a configured file that has a buffer fails only where the
\* length cannot be resolved, never for an offset or a length L that
\* reaches past the buffer: it returns the bytes of the buffer from
\* record_number*2 up to record_number*2 + L or the end of the buffer,
\* whichever comes first; the result is not longer than L, lies inside the
\* buffer and is empty when the offset is at or past the end.
C23_ReadClippedToBuffer ==
  [][(FileStep("read") /\ Served(lastFile'.file_number))
       => LET fn == lastFile'.file_number
              buffer == file_data[fn][1]
              start == lastFile'.record_number * 2
              resolved == read_length(file_records[find_file(fn)], store', buffer,
                                      lastFile'.record_number, lastFile'.record_length)
              data == lastFile'.data
          IN /\ lastFile'.success <=> resolved # <<>>
             /\ lastFile'.success
                  => LET L == resolved[1]
                     IN /\ \A i \in 1 .. Len(data) :
                             start + i <= Len(buffer) /\ data[i] = buffer[start + i]
                        /\ L >= 0 => Len(data) <= L
                        /\ Len(data) < L => start + Len(data) >= Len(buffer)
                        /\ start >= Len(buffer) => data = <<>>]_vars

\* A read of two words at record 1 of a buffer of MaxSize bytes returned
\* the two bytes there are.
C23_Witness ==
  /\ lastFile.op = "read"
  /\ lastFile.success
  /\ lastFile.record_number = 1
  /\ lastFile.record_length = <<2>>
  /\ Len(lastFile.data) = 2
  /\ Len(file_data[lastFile.file_number][1]) = MaxSize

\* C24: a read of a file whose trigger is enabled with the "write register"
\* kind stores file_number in the holding register at trigger_address and
\* changes no other cell; a length register at that address is read after
\* the write, so the read returns file_number bytes; a trigger write that
\* raises changes no register and the read goes on as without a trigger; a
\* read of a file without an enabled trigger changes no register.
C24_TriggerBeforeLength ==
  [][(FileStep("read") /\ Served(lastFile'.file_number))
       => LET fn == lastFile'.file_number
              fc == file_records[find_file(fn)]
              buffer == file_data[fn][1]
              start == lastFile'.record_number * 2
              hr == store["holding_register"]
              cell == fc.trigger_address + 2
              fires == fc.trigger_enabled /\ fc.trigger_function_code = 6
          IN /\ (fires /\ ~lastFile'.raised)
                  => /\ store'["holding_register"][cell] = fn
                     /\ \A k \in 1 .. Len(hr) :
                          k # cell => store'["holding_register"][k] = hr[k]
                     /\ \A t \in RegisterTypes \ {"holding_register"} : store'[t] = store[t]
                     /\ ( /\ lastFile'.record_length = None
                          /\ fc.file_length = None
                          /\ fc.length_register_enabled
                          /\ fc.length_function_code = 3
                          /\ fc.length_quantity = 1
                          /\ fc.length_address = fc.trigger_address )
                        => /\ lastFile'.success
                           /\ lastFile'.data = Slice(buffer, start, start + fn)
             /\ (fires /\ lastFile'.raised)
                  => /\ store' = store
                     /\ lastFile'.success
                          <=> read_length(fc, store, buffer, lastFile'.record_number,
                                          lastFile'.record_length) # <<>>
             /\ ~fc.trigger_enabled => store' = store]_vars

\* A read of file 1, whose trigger and one-word length register share an
\* address that held another value, returned one byte and left 1 in the
\* register.
C24_Witness ==
  /\ nFileOps = 1
  /\ lastFile.op = "read"
  /\ lastFile.success
  /\ lastFile.file_number = 1
  /\ lastFile.record_length = None
  /\ lastFile.record_number = 0
  /\ Len(lastFile.data) = 1
  /\ LET fc == file_records[find_file(1)]
     IN /\ fc.trigger_enabled
        /\ fc.length_register_enabled
        /\ fc.file_length = None
        /\ fc.length_address = fc.trigger_address
        /\ store["holding_register"][fc.trigger_address + 2] = 1
        /\ IntOf(LifePoints[1].value) # 1

\* C25: a successful write_file_record(fn, record_number, data) leaves a
\* buffer of length max(old length, record_number*2 + len(data)) that holds
\* data in the written range, the old bytes elsewhere and zeros between the
\* old end and the range; the buffers of the other file numbers are as they
\* were.
C25_WriteChangesOnlyTheRange ==
  [][(FileStep("write") /\ lastFile'.success)
       => LET fn == lastFile'.file_number
              had == IF file_data[fn] = Absent THEN <<>> ELSE file_data[fn][1]
              has == file_data'[fn][1]
              offset == lastFile'.record_number * 2
              data == lastFile'.bytes
              reach == offset + Len(data)
          IN /\ file_data'[fn] # Absent
             /\ Len(has) = IF Len(had) > reach THEN Len(had) ELSE reach
             /\ \A i \in 1 .. Len(has) :
                  IF i > offset /\ i <= reach THEN has[i] = data[i - offset]
                  ELSE IF i <= Len(had) THEN has[i] = had[i]
                  ELSE has[i] = 0
             /\ \A other \in FileNumbers \ {fn} : file_data'[other] = file_data[other]]_vars

\* Two bytes written at record 1 of an empty buffer, behind two zeros, the
\* other file number keeping its own empty buffer.
C25_Witness ==
  /\ nFileOps = 1
  /\ lastFile.op = "write"
  /\ lastFile.success
  /\ lastFile.record_number = 1
  /\ file_data[lastFile.file_number] = Present(<<0, 0, 2, 3>>)
  /\ \E other \in FileNumbers \ {lastFile.file_number} :
       file_data[other] = Present(<<>>)

\* The configuration the calls find for the file number is read_only.
ReadOnlyFile(fn) == find_file(fn) # 0 /\ file_records[find_file(fn)].read_only

\* C26: a write_file_record for a file number without a configuration, or
\* whose configuration is read_only, fails and changes no buffer and no
\* file on disk; the buffer of a read_only file is in every state the one
\* its file on disk loads.
C26_ReadOnlyFileNeverWritten ==
  /\ [][(FileStep("write")
          /\ (find_file(lastFile'.file_number) = 0 \/ ReadOnlyFile(lastFile'.file_number)))
         => /\ ~lastFile'.success
            /\ file_data' = file_data
            /\ disk' = disk]_vars
  /\ [](\A fn \in FileNumbers :
          ReadOnlyFile(fn)
            => file_data[fn] = init_file_records(enable_file_operations, file_records, disk)[fn])

\* A write to a read_only file that holds the two bytes loaded from disk
\* was refused after an earlier call.
C26_Witness ==
  /\ nFileOps = 2
  /\ lastFile.op = "write"
  /\ ~lastFile.success
  /\ lastFile.error = "read_only"
  /\ file_data[lastFile.file_number] = Present(<<1, 1>>)

\* C27: a write_file_record that passes the checks and whose save to disk
\* fails still returns success, with the data in the buffer, the files on
\* disk as they were and the failure logged as a warning; a read of the
\* written range right after it returns the data.
C27_FailedSaveKeepsBuffer ==
  [][/\ ( /\ FileStep("write")
          /\ Writable(lastFile'.file_number)
          /\ lastFile'.record_number * 2 + Len(lastFile'.bytes)
               <= file_records[find_file(lastFile'.file_number)].max_size
          /\ ~lastFile'.saved )
        => /\ lastFile'.success
           /\ lastFile'.warned
           /\ disk' = disk
           /\ LET offset == lastFile'.record_number * 2
              IN \A i \in 1 .. Len(lastFile'.bytes) :
                   file_data'[lastFile'.file_number][1][offset + i] = lastFile'.bytes[i]
     /\ ( /\ FileStep("read")
          /\ lastFile.op = "write"
          /\ lastFile.success
          /\ ~lastFile.saved
          /\ Len(lastFile.bytes) % 2 = 0
          /\ lastFile'.file_number = lastFile.file_number
          /\ lastFile'.record_number = lastFile.record_number
          /\ lastFile'.record_length = <<Len(lastFile.bytes) \div 2>> )
        => lastFile'.success /\ lastFile'.data = lastFile.bytes]_vars

\* A read that returned the bytes of a write whose save had failed, the
\* file on disk still holding its old content.
C27_Witness ==
  /\ nFileOps = 2
  /\ lastFile.op = "read"
  /\ lastFile.success
  /\ lastFile.record_number = 1
  /\ lastFile.data = <<2, 3>>
  /\ file_data[lastFile.file_number] = Present(<<1, 1, 2, 3>>)
  /\ disk[file_records[find_file(lastFile.file_number)].file_path] = FileOf(<<1, 1>>)


(***************************************************************************)
(* The callback and the snapshot                                           *)
(***************************************************************************)
\* C28: a successful write_register(bank, address, value) invokes
\* on_value_change once, with (bank, address, value); whenever the callback
\* is invoked, the bank already holds the value; a write_register rejected
\* for a read-only point, a value out of range or an invalid bank does not
\* invoke it and leaves the banks as they were.
C28_CallbackOncePerSuccessfulWrite ==
  [][WriteStep
       => LET t == lastOp'.register_type
              a == lastOp'.address
              v == lastOp'.value
          IN /\ lastOp'.success => cbLog' = Append(cbLog, <<t, a, v>>)
             /\ cbLog' # cbLog
                  => /\ cbLog' = Append(cbLog, <<t, a, v>>)
                     /\ store' = [store EXCEPT ![t] = setValues(@, a, IntOf(v))]
             /\ lastOp'.error \in {"read_only", "out_of_range", "invalid_type"}
                  => cbLog' = cbLog /\ store' = store]_vars

\* A second successful write, after which the callback has been invoked
\* twice, the second time with the arguments of that write.
C28_Witness ==
  /\ nOps = 2
  /\ lastOp.op = "write"
  /\ lastOp.success
  /\ Len(cbLog) = 2
  /\ cbLog[2] = <<lastOp.register_type, lastOp.address, lastOp.value>>
  /\ cbLog[1] # cbLog[2]

\* C29 (as claimed): the dict get_all_values() returns has one entry for
\* every configured point, in the list of the point's bank where it has
\* one, the points whose read fails included.
C29_SnapshotHasEveryPoint ==
  lastOp.op = "get_all_values"
    => /\ \A i \in 1 .. Len(points) :
            read_register(points[i].register_type, points[i].address).success
              => \E k \in 1 .. Len(snapshot[points[i].register_type]) :
                   snapshot[points[i].register_type][k].address = points[i].address
       /\ Len(snapshot["coil"]) + Len(snapshot["discrete_input"])
            + Len(snapshot["holding_register"]) + Len(snapshot["input_register"])
          = Len(points)

\* C30 (as claimed): the count _init_datastore reports is the number of
\* points that were to be seeded: those whose value is an integer and whose
\* address lies inside their bank; the others are skipped.
C30_SeededCountSkipsBadPoints ==
  initialized_count
    = Cardinality({i \in 1 .. Len(points) :
                     /\ IsInt(points[i].value)
                     /\ points[i].register_type \in RegisterTypes
                     /\ InBank(points[i].address)})


(***************************************************************************)
(* The banks                                                               *)
(***************************************************************************)
\* C31 (as claimed): a read_register or write_register at an address that
\* is not below the size of the bank returns a failure and leaves every
\* bank as it was, its length included.
C31_OutOfBankAccessFails ==
  [][( /\ nOps' = nOps + 1
       /\ lastOp'.op \in {"read", "write"}
       /\ lastOp'.address >= BankSize )
       => ~lastOp'.success /\ store' = store]_vars

\* C32 (as claimed): every cell of the coil bank and of the discrete-input
\* bank holds 0 or 1 in every state.
C32_BooleanBanksHoldBits ==
  \A t \in BoolTypes : \A k \in 1 .. Len(store[t]) : store[t][k] \in {0, 1}

\* C38 (as claimed): a write_register that returns a failure leaves every
\* bank as it was.
C38_FailedWriteLeavesStore ==
  [][(WriteStep /\ ~lastOp'.success) => store' = store]_vars


(***************************************************************************)
(* The supervisor under concurrent callers.                                 *)
(***************************************************************************)
\* C34 (as claimed): a stop_all that runs next to add_slave or remove_slave
\* calls of other callers does not raise: no stop_all ends with an exception
\* leaving the method.
C34_StopAllNeverRaises ==
  ~(mres.op = "stop_all" /\ mres.outcome = "raised")

\* C36 (as claimed): every instance that is running is registered in the
\* supervisor, under every interleaving of start_slave, stop_slave and
\* remove_slave; a removed instance is not started by a start_slave that
\* was issued before the removal completed.
C36_RunningIsRegistered ==
  \A i \in 1 .. nBuilt : irunning[i] => i \in Registered


(***************************************************************************)
(* The exit cleanup of a worker.                                            *)
(***************************************************************************)
\* C37 (as claimed): the exit cleanup of a worker acts on the event loop
\* this worker created only: it cancels no task of, drops no job of and does
\* not close the loop of another worker, also when the worker has outlived
\* the join bound of stop() and the instance was started again.
C37_CleanupOwnLoopOnly ==
  [][ \A w \in Workers :
        (wpc[w] = "cleanup" /\ wpc'[w] = "exited")
        => \A l \in Workers \ {w} :
             /\ task'[l] = task[l]
             /\ srv'[l] = srv[l]
             /\ shutdownJob'[l] = shutdownJob[l]
             /\ loopSt'[l] = loopSt[l] ]_vars


(***************************************************************************)
(* Log delivery and the validation of a point list.                         *)
(***************************************************************************)
\* C33 (as claimed): when add_slave builds an instance on a supervisor whose
\* log callback is set, the messages the instance emits during its
\* construction are delivered to the callback.
C33_ConstructionMessagesDelivered ==
  [][ (on_log /\ nBuilt' = nBuilt + 1) => "initialized" \in sunk'[nBuilt'] ]_vars

\* The points of the list that repeat the bank and address of an earlier
\* one, and the points whose initial value validate_value does not accept.
Repeats(pts) ==
  { i \in 1 .. Len(pts) :
      \E j \in 1 .. i - 1 : /\ pts[j].register_type = pts[i].register_type
                            /\ pts[j].address = pts[i].address }
Refused(pts) ==
  { i \in 1 .. Len(pts) : validate_value(pts[i], pts[i].value) # "true" }

\* C35 (as claimed): validate_points returns success exactly when no two
\* points share bank and address and every initial value passes
\* validate_value; otherwise it returns a failure that reports every
\* repeated address and every refused value; the list is left as it was.
C35_ValidatePointsVerdict ==
  [][ validation' # validation
      => LET pts == validation.points
             errors == validation'.errors
         IN /\ validation'.points = pts
            /\ validation'.outcome = "success"
               <=> (Repeats(pts) = {} /\ Refused(pts) = {})
            /\ validation'.outcome # "success"
               => /\ validation'.outcome = "failure"
                  /\ Len(errors) = Cardinality(Repeats(pts)) + Cardinality(Refused(pts))
                  /\ \A i \in Repeats(pts) :
                       \E k \in 1 .. Len(errors) : errors[k] = Conflict(pts[i])
                  /\ \A i \in Refused(pts) :
                       \E k \in 1 .. Len(errors) : errors[k] = OutOfRange(pts[i]) ]_vars


(***************************************************************************)
(* Bounds of the buffers and guards of the registers.                       *)
(***************************************************************************)
\* C39 (as claimed): in every state the buffer of every configured file
\* number is at most max_size bytes long, max_size being the one of the
\* configuration the lookup finds for the number.
C39_BufferWithinMaxSize ==
  \A fn \in FileNumbers :
    (find_file(fn) # 0 /\ file_data[fn] # Absent)
    => Len(file_data[fn][1]) <= file_records[find_file(fn)].max_size

\* C40 (as claimed): no operation of the instance changes the cell at the
\* address of a read_only point, and every change an operation makes to a
\* bank comes with a call of the value-changed callback.
C40_ReadOnlyCellsNeverChange ==
  [][ /\ \A i \in 1 .. Len(points) :
           points[i].read_only
           => getValues(store'[points[i].register_type], points[i].address)
                = getValues(store[points[i].register_type], points[i].address)
      /\ store' # store => Len(cbLog') = Len(cbLog) + 1 ]_vars

====
